---- MODULE Spec2Model ----
(***************************************************************************)
(* read_woa_csv of woatools (src/woatools/src/woatools/woa.py): the WOA    *)
(* CSV loader that turns a list of CSV paths, a field code and a time code *)
(* into a 4-D grid (lat, lon, depth, time) and its coordinate vectors.     *)
(*                                                                         *)
(* Text is modelled character by character: a Python str is a sequence of  *)
(* one-character strings, so that strip, split, float, re.search and the   *)
(* lexicographic list sort are computed as the code computes them.         *)
(* A float is a fixed-point number of tenths (5.5 is 55); every numeric    *)
(* literal of the inputs is a plain decimal with at most one decimal, or    *)
(* the word nan.                                                           *)
(*                                                                         *)
(* The module also holds get_woa and get_citation of the same file with    *)
(* the downloads table of database.py, a caller that calls read_woa_csv    *)
(* again, and two read_woa_csv calls whose steps interleave.               *)
(***************************************************************************)
EXTENDS Integers, Sequences, FiniteSets, TLC

VARIABLES
    disk,            \* the file system: path -> sequence of lines (read only)
    csv_files,       \* argument: list of paths
    field_code,      \* argument: str
    time_code,       \* argument: str
    pc,              \* position in read_woa_csv
    bound,           \* names of the locals assigned so far
    pattern,         \* regular expression built from the codes
    expected_files,  \* 1, 12 or 4
    filtered_files,  \* the selected paths, sorted after the sort step
    depths,          \* depth axis read from the first file
    all_lats,        \* set of latitudes collected by pass 1
    all_lons,        \* set of longitudes collected by pass 1
    lats,            \* sorted latitude vector
    lons,            \* sorted longitude vector
    n_time,          \* size of the time dimension
    time_values,     \* time coordinate vector
    data,            \* the output array, None until allocated
    lat_idx,         \* dict latitude -> row
    lon_idx,         \* dict longitude -> column
    fidx,            \* index in filtered_files of the current file (0-based)
    open_files,      \* paths of the files currently open
    opened,          \* every open() made so far, in order
    err,             \* the exception raised, NoError if none
    result,          \* what the call returned, None before it returns
    calls,           \* number of read_woa_csv calls the caller has made
    first,           \* the outcome of the caller's first call, once it ended
    running,         \* the call whose frame the variables above hold (1 or 2)
    other,           \* the frame of a second, suspended call; None if none
    g_pc,            \* position in get_woa / get_citation
    g_args,          \* arguments of the get_woa call
    g_local,         \* locals of the get_woa call
    g_fs,            \* the files of the download directory
    g_db,            \* the downloads table of downloads.db
    g_http,          \* the HTTP requests made so far
    g_today,         \* the current date
    g_ret,           \* what get_woa returned or raised
    g_cite,          \* the access date of the last get_citation call
    g_calls,         \* number of get_woa calls made
    e_pc,            \* position in get_etopo
    e_args,          \* arguments of the get_etopo call
    e_local,         \* locals of the get_etopo call
    e_fs,            \* the files of etopo_downloads
    e_ret,           \* what get_etopo returned or raised
    e_calls          \* number of get_etopo calls made

vars == <<disk, csv_files, field_code, time_code, pc, bound, pattern,
          expected_files, filtered_files, depths, all_lats, all_lons, lats,
          lons, n_time, time_values, data, lat_idx, lon_idx, fidx,
          open_files, opened, err, result>>

\* The state outside one read_woa_csv call: the caller's record of its
\* calls, a second call's frame, and the state of the archive fetcher.
wvars == <<g_pc, g_args, g_local, g_fs, g_db, g_http, g_today, g_ret, g_cite,
           g_calls>>
evars == <<e_pc, e_args, e_local, e_fs, e_ret, e_calls>>
gvars == <<wvars, evars>>
outside == <<calls, first, running, other, gvars>>

None == <<>>
NaN == <<>>                     \* numpy.nan in a cell; a number v is <<v>>
NoError == [exc |-> "", kind |-> ""]

(***************************************************************************)
(* Python str, list and re primitives                                      *)
(***************************************************************************)
Digits == {"0", "1", "2", "3", "4", "5", "6", "7", "8", "9"}
DigitChar == <<"0", "1", "2", "3", "4", "5", "6", "7", "8", "9">>
DigitVal(c) == CHOOSE d \in 0..9 : DigitChar[d + 1] = c
Whitespace == {" ", "\t", "\n"}

\* The characters of the inputs in ascending code point order.
CodeOrder ==
    <<"\t", "\n", " ", "#", "(", ")", "+", ",", "-", ".", "/",
      "0", "1", "2", "3", "4", "5", "6", "7", "8", "9", ":",
      "A", "B", "C", "D", "E", "F", "G", "H", "I", "J", "K", "L", "M",
      "N", "O", "P", "Q", "R", "S", "T", "U", "V", "W", "X", "Y", "Z", "_",
      "a", "b", "c", "d", "e", "f", "g", "h", "i", "j", "k", "l", "m",
      "n", "o", "p", "q", "r", "s", "t", "u", "v", "w", "x", "y", "z">>
ord(c) == CHOOSE i \in 1..Len(CodeOrder) : CodeOrder[i] = c

SetMin(S) == CHOOSE m \in S : \A x \in S : m <= x
SetMax(S) == CHOOSE m \in S : \A x \in S : x <= m

\* a < b for two str: the first differing character decides, else the length.
StrLess(a, b) ==
    LET n == IF Len(a) < Len(b) THEN Len(a) ELSE Len(b)
        d == {i \in 1..n : a[i] # b[i]}
    IN  IF d = {} THEN Len(a) < Len(b)
        ELSE ord(a[SetMin(d)]) < ord(b[SetMin(d)])

\* Variant: the list is left in the caller's order.
sort_Skipped(l) == l

\* list.sort() of a list of str (stable, ascending).
RECURSIVE sort(_)
sort(l) ==
    IF Len(l) <= 1 THEN l
    ELSE LET s == sort(SubSeq(l, 1, Len(l) - 1))
             x == l[Len(l)]
             k == Cardinality({i \in 1..Len(s) : ~StrLess(x, s[i])})
         IN  SubSeq(s, 1, k) \o <<x>> \o SubSeq(s, k + 1, Len(s))

\* sorted(S) of a set of numbers: the ascending list of its elements.
RECURSIVE sorted(_)
sorted(S) ==
    IF S = {} THEN <<>>
    ELSE LET m == SetMin(S) IN <<m>> \o sorted(S \ {m})

\* s.strip()
strip(s) ==
    LET keep == {i \in 1..Len(s) : s[i] \notin Whitespace}
    IN  IF keep = {} THEN <<>> ELSE SubSeq(s, SetMin(keep), SetMax(keep))

\* s.split(sep): the pieces between the occurrences of sep, left to right.
RECURSIVE split(_, _)
split(s, sep) ==
    LET hits == {i \in 1..(Len(s) - Len(sep) + 1) :
                    SubSeq(s, i, i + Len(sep) - 1) = sep}
    IN  IF hits = {} THEN <<s>>
        ELSE LET i == SetMin(hits)
             IN  <<SubSeq(s, 1, i - 1)>>
                 \o split(SubSeq(s, i + Len(sep), Len(s)), sep)

\* float(s): surrounding whitespace and a sign are accepted, then digits with
\* at most one point and at least one digit, or the word nan in any case;
\* anything else is a ValueError.
Unsigned(t) == IF Len(t) > 0 /\ t[1] \in {"-", "+"} THEN Tail(t) ELSE t
is_nan(b) ==
    Len(b) = 3 /\ b[1] \in {"n", "N"} /\ b[2] \in {"a", "A"} /\ b[3] \in {"n", "N"}
float_ok(s) ==
    LET b == Unsigned(strip(s))
    IN  \/ is_nan(b)
        \/ /\ \A i \in 1..Len(b) : b[i] \in Digits \cup {"."}
           /\ Cardinality({i \in 1..Len(b) : b[i] = "."}) <= 1
           /\ \E i \in 1..Len(b) : b[i] \in Digits

\* A nan is a float object that is equal to no float, itself included: a
\* set or a dict tells two nan objects apart by identity. Object 0 is the
\* one float() has just made, which no container holds; a set that takes a
\* nan in holds it as its own object 1, 2, ...
nan_object(n) == 1000000 + n

RECURSIVE NatOf(_)
NatOf(d) ==
    IF Len(d) = 0 THEN 0
    ELSE 10 * NatOf(SubSeq(d, 1, Len(d) - 1)) + DigitVal(d[Len(d)])

float(s) ==
    LET t == strip(s)
        b == Unsigned(t)
        dots == {i \in 1..Len(b) : b[i] = "."}
        dot == IF dots = {} THEN Len(b) + 1 ELSE SetMin(dots)
        tenths == IF dot < Len(b) THEN DigitVal(b[dot + 1]) ELSE 0
        mag == 10 * NatOf(SubSeq(b, 1, dot - 1)) + tenths
    IN  IF is_nan(b) THEN nan_object(0)
        ELSE IF t[1] = "-" THEN 0 - mag ELSE mag

\* set.add(x)
set_add(S, x) ==
    S \cup {IF x = nan_object(0) THEN nan_object(Cardinality(S) + 1) ELSE x}

\* What an array cell holds after arr[...] = float(val): a nan is the value
\* of np.nan, the missing sentinel itself.
stored(val) == IF float(val) = nan_object(0) THEN <<>> ELSE <<float(val)>>

\* re.search(pattern, s) for a pattern that is a sequence of character
\* classes (a literal character is the class of itself).
re_search(p, s) ==
    \E i \in 1..(Len(s) - Len(p) + 1) :
        \A j \in 1..Len(p) : s[i + j - 1] \in p[j]

Literal(s) == [i \in 1..Len(s) |-> {s[i]}]

(***************************************************************************)
(* Inputs: file names, file contents, codes                                *)
(***************************************************************************)
MaxLines == 2        \* data lines per file in the content sweep
MaxList == 2         \* paths per list in the selection sweep

an == <<"a", "n">>
mn == <<"m", "n">>
dd == <<"d", "d">>
ma == <<"m", "a">>
sd == <<"s", "d">>
se == <<"s", "e">>
oa == <<"o", "a">>
gp == <<"g", "p">>
sdo == <<"s", "d", "o">>
sea == <<"s", "e", "a">>
FieldCodes == <<an, mn, dd, ma, sd, se, oa, gp, sdo, sea>>

TimeCodes == {"00", "01-12", "13-16", "01", "13", ""}

download_dir == <<"w","o","a","_","d","o","w","n","l","o","a","d","s">>
TwoDigit(n) == <<DigitChar[(n \div 10) + 1], DigitChar[(n % 10) + 1]>>

\* The path of the CSV of variable v, time slot `slot` and field `field` of
\* the 1-degree archive, as get_woa returns it:
\* <dir>/woa23_decav_<v><slot><field>01.csv
WoaPath(dir, v, slot, field) ==
    dir \o <<"/">> \o <<"w","o","a","2","3","_","d","e","c","a","v","_">>
        \o <<v>> \o TwoDigit(slot) \o field \o <<"0","1",".","c","s","v">>

\* The CSV list of one archive holding the given fields: a file for each
\* field and each slot 00..16.
ArchiveList(fields) ==
    LET n == Len(fields)
    IN  [i \in 1..(17 * n) |->
            WoaPath(download_dir, "t", (i - 1) % 17, fields[((i - 1) \div 17) + 1])]

Range(s) == {s[i] : i \in 1..Len(s)}

\* Lines of a CSV file.
InfoLine == <<"#","W","O","A","2","3"," ","t"," ","a","n","\n">>
Depths2 ==
    <<"#","A","T"," ","D","E","P","T","H","S"," ","(","M",")",":","0",",","1","0","\n">>
Depths1 ==
    <<"#","A","T"," ","D","E","P","T","H","S"," ","(","M",")",":","0","\n">>
DepthsNoLabel ==
    <<"#","A","T"," ","D","E","P","T","H","S",":","0",",","1","0","\n">>
DepthsNotNumeric ==
    <<"#","A","T"," ","D","E","P","T","H","S"," ","(","M",")",":","0",",","1","0",",","a","b","c","\n">>
DepthsTrailingComma ==
    <<"#","A","T"," ","D","E","P","T","H","S"," ","(","M",")",":","0",",","1","0",",","\n">>
DepthLines ==
    {Depths2, Depths1, DepthsNoLabel, DepthsNotNumeric, DepthsTrailingComma}

LineBlankTail == <<"1","0",".","0",",","2","0",".","0",",","5",".","5",",","\n">>
LineBlankHead == <<"1","0",",","2","0",".","0",",",",","7","\n">>
LineShort == <<"-","5",".","0",",","2","0",".","0",",","1",".","5","\n">>
LineBadValue == <<"1","0",".","0",",","3","0",".","0",",","x",",","2",".","5","\n">>
LineBadLon == <<"1","0",".","0",",","x",",","1",".","0","\n">>
LineOneField == <<"1","0",".","0","\n">>
LineEmpty == <<"\n">>
LineTwoFields == <<"-","5",".","0",",","3","0",".","0","\n">>
LineLong ==
    <<"1","0",".","0",",","2","0",".","0",",","1",".","0",",","2",".","0",",","3",".","0","\n">>
LineSpaces ==
    <<" ","1","0",".","0"," ",","," ","2","0",".","0"," ",","," ","4",".","5"," ","\n">>
LineNanLat == <<"n","a","n",",","2","0",".","0",",","1",".","0","\n">>
LineNanLatUpper == <<"N","a","N",",","3","0",".","0",",","2",".","5","\n">>
LineNanLon == <<"1","0",".","0",",","n","a","n",",","1",".","0","\n">>
LineNanLonSpaces == <<"-","5",".","0",","," ","n","a","n"," ",",","3",".","0","\n">>
LinePool ==
    {LineBlankTail, LineBlankHead, LineShort, LineBadValue, LineBadLon,
     LineOneField, LineEmpty, LineTwoFields, LineLong, LineSpaces}

\* The line "10.0,20.0,<m>.0": the value m at depth 0 of cell (10.0, 20.0).
LineOfValue(m) ==
    <<"1","0",".","0",",","2","0",".","0",",">>
        \o (IF m < 10 THEN <<DigitChar[m + 1]>> ELSE TwoDigit(m))
        \o <<".","0","\n">>

SeqsUpTo(S, n) == UNION {[1..k -> S] : k \in 0..n}
File(depth_line, body) == <<InfoLine, depth_line>> \o body

\* File contents of the content sweep: every body of at most MaxLines pool
\* lines under a good header, every header over bodies of at most one
\* line, and the files too short to have a depth line.
SweepFiles ==
    {File(Depths2, b) : b \in SeqsUpTo(LinePool, MaxLines)}
        \cup {File(h, b) : h \in DepthLines, b \in SeqsUpTo(LinePool, 1)}
        \cup {<<>>, <<InfoLine>>}

\* File contents of the multi-file loads.
SmallFiles ==
    {File(Depths2, <<LineBlankTail>>),
     File(Depths2, <<LineShort, LineBadValue>>),
     File(DepthsNoLabel, <<LineLong>>)}

\* The well-formed file of time slot `slot`: its one value is the slot number.
SlotFile(slot) == File(Depths2, <<LineOfValue(slot)>>)

(***************************************************************************)
(* read_woa_csv: helpers                                                   *)
(***************************************************************************)
\* Variant: the else branch of the time code test is missing, so that every
\* other code is taken for the seasonal one.
ValidTimeCodes_NoElse == TimeCodes

ValidTimeCodes == {"00", "01-12", "13-16"}

\* Variant: the seasonal pattern leaves out the field code.
Pattern_NoField(tc, fc) ==
    IF tc = "00" THEN <<{"0"}, {"0"}>> \o Literal(fc)
    ELSE IF tc = "01-12" THEN <<Digits, Digits>> \o Literal(fc)
    ELSE <<{"1"}, {"3", "4", "5", "6"}>>

\* pattern = f'00{field_code}' | f'[0-9][0-9]{field_code}' | f'1[3-6]{field_code}'
Pattern(tc, fc) ==
    IF tc = "00" THEN <<{"0"}, {"0"}>> \o Literal(fc)
    ELSE IF tc = "01-12" THEN <<Digits, Digits>> \o Literal(fc)
    ELSE <<{"1"}, {"3", "4", "5", "6"}>> \o Literal(fc)

\* Variant: the monthly count is the number of two-digit slots of an archive.
ExpectedFiles_AllSlots(tc) ==
    IF tc = "00" THEN 1 ELSE IF tc = "01-12" THEN 17 ELSE 4

ExpectedFiles(tc) ==
    IF tc = "00" THEN 1 ELSE IF tc = "01-12" THEN 12 ELSE 4

\* Variant: the selected files are appended to a list that outlives the call.
FilterFiles_Accumulate(files, p) ==
    LET Match(f) == re_search(p, f) IN filtered_files \o SelectSeq(files, Match)

\* [f for f in csv_files if re.search(pattern, f)]
FilterFiles(files, p) ==
    LET Match(f) == re_search(p, f) IN SelectSeq(files, Match)

\* Variant: the count test is < instead of !=.
FilterError_Less(filtered, expected) ==
    IF Len(filtered) = 0
    THEN [exc |-> "ValueError", kind |-> "NoMatchingFiles"]
    ELSE IF Len(filtered) < expected
    THEN [exc |-> "ValueError", kind |-> "FileCountMismatch"]
    ELSE NoError

\* Lines 353-357: the error for the selected files, NoError to go on.
FilterError(filtered, expected) ==
    IF Len(filtered) = 0
    THEN [exc |-> "ValueError", kind |-> "NoMatchingFiles"]
    ELSE IF Len(filtered) # expected
    THEN [exc |-> "ValueError", kind |-> "FileCountMismatch"]
    ELSE NoError

\* f.readline() for the n-th line: '' at end of file.
ReadLine(file, n) == IF n <= Len(file) THEN file[n] ELSE <<>>

\* The lines `for line in f` yields after the two readline() calls.
DataLines(file) == SubSeq(file, 3, Len(file))

DepthLabel == <<"D","E","P","T","H","S"," ","(","M",")",":">>

\* depth_line.split('DEPTHS (M):'), whose element [1] the code takes.
DepthParts(file) == split(strip(ReadLine(file, 2)), DepthLabel)
DepthTokens(file) == split(DepthParts(file)[2], <<",">>)

\* The exception of lines 367-368 for this file, NoError if there is none.
DepthError(file) ==
    IF Len(DepthParts(file)) < 2
    THEN [exc |-> "IndexError", kind |-> "MalformedHeader"]
    ELSE IF \E i \in 1..Len(DepthTokens(file)) : ~float_ok(DepthTokens(file)[i])
    THEN [exc |-> "ValueError", kind |-> "MalformedHeader"]
    ELSE NoError

\* np.array([float(d) for d in depth_str.split(',')])
ParseDepths(file) ==
    [i \in 1..Len(DepthTokens(file)) |-> float(DepthTokens(file)[i])]

\* Variant: the latitude is added before the longitude is parsed.
Pass1Line_LatFirst(acc, line) ==
    LET values == split(strip(line), <<",">>)
    IN  IF Len(values) >= 2 /\ float_ok(values[1])
        THEN [lats |-> set_add(acc.lats, float(values[1])),
              lons |-> IF float_ok(values[2])
                       THEN set_add(acc.lons, float(values[2])) ELSE acc.lons]
        ELSE acc

\* Variant: pass 1 takes only the lines that have a value field too, and
\* more than one.
Pass1Line_Stricter(acc, line) ==
    LET values == split(strip(line), <<",">>)
    IN  IF Len(values) >= 4 /\ float_ok(values[1]) /\ float_ok(values[2])
        THEN [lats |-> set_add(acc.lats, float(values[1])),
              lons |-> set_add(acc.lons, float(values[2]))]
        ELSE acc

\* One line of pass 1 (lines 380-387): both floats are parsed before
\* either set is touched.
Pass1Line(acc, line) ==
    LET values == split(strip(line), <<",">>)
    IN  IF Len(values) >= 2 /\ float_ok(values[1]) /\ float_ok(values[2])
        THEN [lats |-> set_add(acc.lats, float(values[1])),
              lons |-> set_add(acc.lons, float(values[2]))]
        ELSE acc

\* Variant: the first line that does not parse ends the loop over the file.
RECURSIVE Pass1Lines_StopAtBad(_, _)
Pass1Lines_StopAtBad(acc, lines) ==
    IF Len(lines) = 0 THEN acc
    ELSE LET values == split(strip(Head(lines)), <<",">>)
         IN  IF Len(values) < 2 THEN acc
             ELSE IF ~(float_ok(values[1]) /\ float_ok(values[2])) THEN acc
             ELSE Pass1Lines_StopAtBad(Pass1Line(acc, Head(lines)), Tail(lines))

RECURSIVE Pass1Lines(_, _)
Pass1Lines(acc, lines) ==
    IF Len(lines) = 0 THEN acc
    ELSE Pass1Lines(Pass1Line(acc, Head(lines)), Tail(lines))

\* {v: i for i, v in enumerate(axis)}
EnumerateIdx(axis) ==
    [v \in Range(axis) |-> SetMax({i \in 0..(Len(axis) - 1) : axis[i + 1] = v})]

\* np.full(shape, np.nan)
np_full(shape) ==
    [shape |-> shape,
     cells |-> [c \in (0..(shape[1] - 1)) \X (0..(shape[2] - 1))
                      \X (0..(shape[3] - 1)) \X (0..(shape[4] - 1)) |-> NaN]]

\* Variant: a field that is no number ends the loop (break for continue).
RECURSIVE FillDepths_Break(_, _, _, _, _, _)
FillDepths_Break(arr, data_values, i, j, t, k) ==
    IF k >= Len(data_values) THEN arr
    ELSE LET val == data_values[k + 1]
         IN  IF strip(val) = <<>>
             THEN FillDepths_Break(arr, data_values, i, j, t, k + 1)
             ELSE IF ~float_ok(val) THEN arr
             ELSE IF k >= arr.shape[3]
             THEN FillDepths_Break(arr, data_values, i, j, t, k + 1)
             ELSE FillDepths_Break(
                      [arr EXCEPT !.cells[<<i, j, k, t>>] = stored(val)],
                      data_values, i, j, t, k + 1)

\* Variant: a blank field ends the loop over the fields (break).
RECURSIVE FillDepths_BlankBreak(_, _, _, _, _, _)
FillDepths_BlankBreak(arr, data_values, i, j, t, k) ==
    IF k >= Len(data_values) THEN arr
    ELSE LET val == data_values[k + 1]
         IN  IF strip(val) = <<>> THEN arr
             ELSE LET next ==
                         IF ~float_ok(val) THEN arr
                         ELSE IF k >= arr.shape[3] THEN arr
                         ELSE [arr EXCEPT !.cells[<<i, j, k, t>>] = stored(val)]
                  IN  FillDepths_BlankBreak(next, data_values, i, j, t, k + 1)

\* Variant: a field beyond the depth axis is written at the last depth.
RECURSIVE FillDepths_Clamp(_, _, _, _, _, _)
FillDepths_Clamp(arr, data_values, i, j, t, k) ==
    IF k >= Len(data_values) THEN arr
    ELSE LET val == data_values[k + 1]
             next ==
                IF strip(val) = <<>> THEN arr
                ELSE IF ~float_ok(val) THEN arr
                ELSE IF arr.shape[3] = 0 THEN arr
                ELSE IF k >= arr.shape[3]
                THEN [arr EXCEPT !.cells[<<i, j, arr.shape[3] - 1, t>>] = stored(val)]
                ELSE [arr EXCEPT !.cells[<<i, j, k, t>>] = stored(val)]
         IN  FillDepths_Clamp(next, data_values, i, j, t, k + 1)

\* Variant: a cell that already holds a value is not written again.
RECURSIVE FillDepths_KeepFirst(_, _, _, _, _, _)
FillDepths_KeepFirst(arr, data_values, i, j, t, k) ==
    IF k >= Len(data_values) THEN arr
    ELSE LET val == data_values[k + 1]
             next ==
                IF strip(val) = <<>> THEN arr
                ELSE IF ~float_ok(val) THEN arr
                ELSE IF k >= arr.shape[3] THEN arr
                ELSE IF arr.cells[<<i, j, k, t>>] # NaN THEN arr
                ELSE [arr EXCEPT !.cells[<<i, j, k, t>>] = stored(val)]
         IN  FillDepths_KeepFirst(next, data_values, i, j, t, k + 1)

\* The loop of lines 427-432 from field k on: a blank field is skipped, a
\* field that is no number (ValueError) or lies beyond the depth axis
\* (IndexError) is skipped, and the loop goes on with the next field.
RECURSIVE FillDepths(_, _, _, _, _, _)
FillDepths(arr, data_values, i, j, t, k) ==
    IF k >= Len(data_values) THEN arr
    ELSE LET val == data_values[k + 1]
             next ==
                IF strip(val) = <<>> THEN arr
                ELSE IF ~float_ok(val) THEN arr
                ELSE IF k >= arr.shape[3] THEN arr
                ELSE [arr EXCEPT !.cells[<<i, j, k, t>>] = stored(val)]
         IN  FillDepths(next, data_values, i, j, t, k + 1)

\* One line of pass 2 (lines 419-434).
Pass2Line(arr, line, t, latidx, lonidx) ==
    LET values == split(strip(line), <<",">>)
    IN  IF Len(values) < 3 THEN arr
        ELSE IF ~(float_ok(values[1]) /\ float_ok(values[2])) THEN arr
        ELSE IF float(values[1]) \notin DOMAIN latidx THEN arr
        ELSE IF float(values[2]) \notin DOMAIN lonidx THEN arr
        ELSE FillDepths(arr, SubSeq(values, 3, Len(values)),
                        latidx[float(values[1])], lonidx[float(values[2])], t, 0)

RECURSIVE Pass2Lines(_, _, _, _, _)
Pass2Lines(arr, lines, t, latidx, lonidx) ==
    IF Len(lines) = 0 THEN arr
    ELSE Pass2Lines(Pass2Line(arr, Head(lines), t, latidx, lonidx),
                    Tail(lines), t, latidx, lonidx)

\* np.arange(a, b)
arange(a, b) == [i \in 1..(b - a) |-> a + i - 1]

\* Variant: the seasonal axis stops one short.
TimeValues_Short(n) ==
    IF n = 12 THEN arange(1, 13)
    ELSE IF n = 4 THEN arange(1, 4)
    ELSE <<0>>

\* Lines 394-402: the time axis for n selected files.
TimeValues(n) ==
    IF n = 12 THEN arange(1, 13)
    ELSE IF n = 4 THEN arange(1, 5)
    ELSE <<0>>

\* Variant: latitude and longitude sizes are swapped.
GridShape_Swapped(la, lo, de, nt) == <<Len(lo), Len(la), Len(de), nt>>

\* Line 407: the shape of the output array.
GridShape(la, lo, de, nt) == <<Len(la), Len(lo), Len(de), nt>>

(***************************************************************************)
(* read_woa_csv: the steps                                                 *)
(***************************************************************************)
\* Variant: the exception leaves the with block without closing the file.
Raise_LeaveOpen(e) ==
    /\ pc' = "raised"
    /\ err' = e
    /\ open_files' = open_files

Raise(e) ==
    /\ pc' = "raised"
    /\ err' = e
    /\ open_files' = {}

\* Lines 337-348.
Validate ==
    /\ pc = "validate"
    /\ IF time_code \in ValidTimeCodes
       THEN /\ pattern' = Pattern(time_code, field_code)
            /\ expected_files' = ExpectedFiles(time_code)
            /\ bound' = bound \cup {"pattern", "expected_files"}
            /\ pc' = "filter"
            /\ UNCHANGED <<err, open_files>>
       ELSE /\ Raise([exc |-> "ValueError", kind |-> "InvalidSelector"])
            /\ UNCHANGED <<pattern, expected_files, bound>>
    /\ UNCHANGED <<outside, disk, csv_files, field_code, time_code, filtered_files,
                   depths, all_lats, all_lons, lats, lons, n_time, time_values,
                   data, lat_idx, lon_idx, fidx, opened, result>>

\* Lines 350-357.
Filter ==
    /\ pc = "filter"
    /\ filtered_files' = FilterFiles(csv_files, pattern)
    /\ bound' = bound \cup {"filtered_files"}
    /\ IF FilterError(filtered_files', expected_files) # NoError
       THEN Raise(FilterError(filtered_files', expected_files))
       ELSE /\ pc' = "sort"
            /\ UNCHANGED <<err, open_files>>
    /\ UNCHANGED <<outside, disk, csv_files, field_code, time_code, pattern,
                   expected_files, depths, all_lats, all_lons, lats, lons,
                   n_time, time_values, data, lat_idx, lon_idx, fidx, opened,
                   result>>

\* Variant: the selection is the caller's list itself, sorted in place.
SortFiles_InPlace ==
    /\ pc = "sort"
    /\ filtered_files' = sort(filtered_files)
    /\ csv_files' = sort(csv_files)
    /\ pc' = "open_first"
    /\ UNCHANGED <<outside, disk, field_code, time_code, bound, pattern,
                   expected_files, depths, all_lats, all_lons, lats, lons,
                   n_time, time_values, data, lat_idx, lon_idx, fidx,
                   open_files, opened, err, result>>

\* Variant: the selection keeps the order of the caller's list.
SortFiles_KeepOrder ==
    /\ pc = "sort"
    /\ pc' = "open_first"
    /\ UNCHANGED <<outside, disk, csv_files, field_code, time_code, bound, pattern,
                   expected_files, filtered_files, depths, all_lats, all_lons,
                   lats, lons, n_time, time_values, data, lat_idx, lon_idx,
                   fidx, open_files, opened, err, result>>

\* Line 360.
SortFiles ==
    /\ pc = "sort"
    /\ filtered_files' = sort(filtered_files)
    /\ pc' = "open_first"
    /\ UNCHANGED <<outside, disk, csv_files, field_code, time_code, bound, pattern,
                   expected_files, depths, all_lats, all_lons, lats, lons,
                   n_time, time_values, data, lat_idx, lon_idx, fidx,
                   open_files, opened, err, result>>

\* Line 363: open(filtered_files[0]).
OpenFirst ==
    /\ pc = "open_first"
    /\ open_files' = open_files \cup {filtered_files[1]}
    /\ opened' = Append(opened, filtered_files[1])
    /\ pc' = "read_depths"
    /\ UNCHANGED <<outside, disk, csv_files, field_code, time_code, bound, pattern,
                   expected_files, filtered_files, depths, all_lats, all_lons,
                   lats, lons, n_time, time_values, data, lat_idx, lon_idx,
                   fidx, err, result>>

\* Variant: the output array is allocated before the depth line is parsed.
ReadDepths_AllocFirst ==
    /\ pc = "read_depths"
    /\ data' = np_full(<<0, 0, 0, expected_files>>)
    /\ LET file == disk[filtered_files[1]]
       IN  IF DepthError(file) # NoError
           THEN /\ Raise(DepthError(file))
                /\ bound' = bound \cup {"data"}
                /\ UNCHANGED <<depths, all_lats, all_lons, fidx>>
           ELSE /\ depths' = ParseDepths(file)
                /\ all_lats' = {}
                /\ all_lons' = {}
                /\ bound' = bound \cup {"data", "depths", "all_lats", "all_lons"}
                /\ fidx' = 0
                /\ open_files' = open_files \ {filtered_files[1]}
                /\ pc' = "pass1"
                /\ UNCHANGED err
    /\ UNCHANGED <<outside, disk, csv_files, field_code, time_code, pattern,
                   expected_files, filtered_files, lats, lons, n_time,
                   time_values, lat_idx, lon_idx, opened, result>>

\* Lines 364-372: the depth axis, the end of the with block, the empty sets.
ReadDepths ==
    /\ pc = "read_depths"
    /\ LET file == disk[filtered_files[1]]
       IN  IF DepthError(file) # NoError
           THEN /\ Raise(DepthError(file))
                /\ UNCHANGED <<depths, all_lats, all_lons, bound, fidx>>
           ELSE /\ depths' = ParseDepths(file)
                /\ all_lats' = {}
                /\ all_lons' = {}
                /\ bound' = bound \cup {"depths", "all_lats", "all_lons"}
                /\ fidx' = 0
                /\ open_files' = open_files \ {filtered_files[1]}
                /\ pc' = "pass1"
                /\ UNCHANGED err
    /\ UNCHANGED <<outside, disk, csv_files, field_code, time_code, pattern,
                   expected_files, filtered_files, lats, lons, n_time,
                   time_values, data, lat_idx, lon_idx, opened, result>>

\* Lines 375-376: the next file of pass 1 is opened.
Pass1Open ==
    /\ pc = "pass1"
    /\ fidx < Len(filtered_files)
    /\ open_files' = open_files \cup {filtered_files[fidx + 1]}
    /\ opened' = Append(opened, filtered_files[fidx + 1])
    /\ pc' = "pass1_read"
    /\ UNCHANGED <<outside, disk, csv_files, field_code, time_code, bound, pattern,
                   expected_files, filtered_files, depths, all_lats, all_lons,
                   lats, lons, n_time, time_values, data, lat_idx, lon_idx,
                   fidx, err, result>>

\* Lines 377-387: the lines of the open file, then the file is closed.
Pass1Read ==
    /\ pc = "pass1_read"
    /\ LET acc == Pass1Lines([lats |-> all_lats, lons |-> all_lons],
                             DataLines(disk[filtered_files[fidx + 1]]))
       IN  /\ all_lats' = acc.lats
           /\ all_lons' = acc.lons
    /\ open_files' = open_files \ {filtered_files[fidx + 1]}
    /\ fidx' = fidx + 1
    /\ pc' = "pass1"
    /\ UNCHANGED <<outside, disk, csv_files, field_code, time_code, bound, pattern,
                   expected_files, filtered_files, depths, lats, lons, n_time,
                   time_values, data, lat_idx, lon_idx, opened, err, result>>

\* Lines 390-391, after the last file of pass 1.
SortCoords ==
    /\ pc = "pass1"
    /\ fidx >= Len(filtered_files)
    /\ lats' = sorted(all_lats)
    /\ lons' = sorted(all_lons)
    /\ bound' = bound \cup {"lats", "lons"}
    /\ pc' = "time_axis"
    /\ UNCHANGED <<outside, disk, csv_files, field_code, time_code, pattern,
                   expected_files, filtered_files, depths, all_lats, all_lons,
                   n_time, time_values, data, lat_idx, lon_idx, fidx,
                   open_files, opened, err, result>>

\* Lines 393-404.
TimeAxis ==
    /\ pc = "time_axis"
    /\ IF Len(filtered_files) \in {12, 4, 1}
       THEN /\ n_time' = Len(filtered_files)
            /\ time_values' = TimeValues(Len(filtered_files))
            /\ bound' = bound \cup {"n_time", "time_values"}
            /\ pc' = "allocate"
            /\ UNCHANGED <<err, open_files>>
       ELSE /\ Raise([exc |-> "ValueError", kind |-> "UnexpectedCount"])
            /\ UNCHANGED <<n_time, time_values, bound>>
    /\ UNCHANGED <<outside, disk, csv_files, field_code, time_code, pattern,
                   expected_files, filtered_files, depths, all_lats, all_lons,
                   lats, lons, data, lat_idx, lon_idx, fidx, opened, result>>

\* Lines 406-411.
Allocate ==
    /\ pc = "allocate"
    /\ data' = np_full(GridShape(lats, lons, depths, n_time))
    /\ lat_idx' = EnumerateIdx(lats)
    /\ lon_idx' = EnumerateIdx(lons)
    /\ bound' = bound \cup {"data", "lat_idx", "lon_idx"}
    /\ fidx' = 0
    /\ pc' = "pass2"
    /\ UNCHANGED <<outside, disk, csv_files, field_code, time_code, pattern,
                   expected_files, filtered_files, depths, all_lats, all_lons,
                   lats, lons, n_time, time_values, open_files, opened, err,
                   result>>

\* Lines 414-415: the next file of pass 2 is opened; t is fidx.
Pass2Open ==
    /\ pc = "pass2"
    /\ fidx < Len(filtered_files)
    /\ open_files' = open_files \cup {filtered_files[fidx + 1]}
    /\ opened' = Append(opened, filtered_files[fidx + 1])
    /\ pc' = "pass2_read"
    /\ UNCHANGED <<outside, disk, csv_files, field_code, time_code, bound, pattern,
                   expected_files, filtered_files, depths, all_lats, all_lons,
                   lats, lons, n_time, time_values, data, lat_idx, lon_idx,
                   fidx, err, result>>

\* Lines 416-434: the lines of the open file, then the file is closed.
Pass2Read ==
    /\ pc = "pass2_read"
    /\ data' = Pass2Lines(data, DataLines(disk[filtered_files[fidx + 1]]),
                          fidx, lat_idx, lon_idx)
    /\ open_files' = open_files \ {filtered_files[fidx + 1]}
    /\ fidx' = fidx + 1
    /\ pc' = "pass2"
    /\ UNCHANGED <<outside, disk, csv_files, field_code, time_code, bound, pattern,
                   expected_files, filtered_files, depths, all_lats, all_lons,
                   lats, lons, n_time, time_values, lat_idx, lon_idx, opened,
                   err, result>>

\* Lines 436-444, after the last file of pass 2.
Return ==
    /\ pc = "pass2"
    /\ fidx >= Len(filtered_files)
    /\ result' = <<data, [lat |-> lats, lon |-> lons, depth |-> depths,
                          time |-> time_values]>>
    /\ pc' = "done"
    /\ UNCHANGED <<outside, disk, csv_files, field_code, time_code, bound, pattern,
                   expected_files, filtered_files, depths, all_lats, all_lons,
                   lats, lons, n_time, time_values, data, lat_idx, lon_idx,
                   fidx, open_files, opened, err>>

(***************************************************************************)
(* The calls checked                                                       *)
(***************************************************************************)
\* The state at the call: nothing assigned, nothing open.
Call(files, fc, tc, fs) ==
    /\ csv_files = files
    /\ field_code = fc
    /\ time_code = tc
    /\ disk = fs
    /\ pc = "validate"
    /\ bound = {}
    /\ pattern = <<>>
    /\ expected_files = 0
    /\ filtered_files = <<>>
    /\ depths = <<>>
    /\ all_lats = {}
    /\ all_lons = {}
    /\ lats = <<>>
    /\ lons = <<>>
    /\ n_time = 0
    /\ time_values = <<>>
    /\ data = None
    /\ lat_idx = <<>>
    /\ lon_idx = <<>>
    /\ fidx = 0
    /\ open_files = {}
    /\ opened = <<>>
    /\ err = NoError
    /\ result = None

AnnualPath == WoaPath(download_dir, "t", 0, an)

\* One annual file whose content ranges over SweepFiles.
InitContent ==
    \E file \in SweepFiles :
        Call(<<AnnualPath>>, an, "00", [p \in {AnnualPath} |-> file])

\* Short lists over a few paths, every field and time code.
SelectPool ==
    {WoaPath(download_dir, "t", 0, an), WoaPath(download_dir, "t", 0, mn),
     WoaPath(download_dir, "s", 0, an), WoaPath(download_dir, "t", 1, an),
     WoaPath(download_dir, "t", 13, an)}
InitSelect ==
    \E files \in SeqsUpTo(SelectPool, MaxList), fc \in {an, mn}, tc \in TimeCodes :
        Call(files, fc, tc, [p \in SelectPool |-> SlotFile(1)])

\* The CSV list of a whole archive, of all fields or of one.
ArchiveDisk(files) ==
    [p \in Range(files) |->
        SlotFile(CHOOSE s \in 0..16 : \E f \in Range(FieldCodes) :
                    p = WoaPath(download_dir, "t", s, f))]
InitArchive ==
    \E fields \in {FieldCodes, <<an>>}, fc \in Range(FieldCodes), tc \in TimeCodes :
        Call(ArchiveList(fields), fc, tc, ArchiveDisk(ArchiveList(fields)))

\* The lists of the files of slots a..b of field an, ascending or descending.
SlotList(a, b, up) ==
    [i \in 1..(b - a + 1) |->
        WoaPath(download_dir, "t", IF up THEN a + i - 1 ELSE b - i + 1, an)]

\* The four seasonal files, each with one of the SmallFiles contents.
InitSeasonal ==
    \E up \in BOOLEAN, c \in [13..16 -> SmallFiles] :
        Call(SlotList(13, 16, up), an, "13-16",
             [p \in Range(SlotList(13, 16, TRUE)) |->
                c[CHOOSE s \in 13..16 : p = WoaPath(download_dir, "t", s, an)]])

\* Seasonal files that are not the four files of one archive in one
\* directory: the winter file lies in another directory than the others, or
\* the spring file is the one of salinity. The file of slot s holds the
\* value s.
other_dir == <<"a","r","c","h","i","v","e">>
MixedLists ==
    {<<WoaPath(download_dir, "t", 13, an), WoaPath(other_dir, "t", 14, an),
       WoaPath(other_dir, "t", 15, an), WoaPath(other_dir, "t", 16, an)>>,
     <<WoaPath(download_dir, "t", 13, an), WoaPath(download_dir, "s", 14, an),
       WoaPath(download_dir, "t", 15, an), WoaPath(download_dir, "t", 16, an)>>}
SlotCode(path, field) ==
    CHOOSE s \in 0..16 :
        \E dir \in {download_dir, other_dir}, v \in {"t", "s"} :
            path = WoaPath(dir, v, s, field)
InitMixed ==
    \E files \in MixedLists :
        Call(files, an, "13-16", [p \in Range(files) |-> SlotFile(SlotCode(p, an))])

\* One annual file whose lines all have nan for latitude, or all for
\* longitude, or have numbers for both.
NanFiles ==
    {File(Depths2, b) :
        b \in SeqsUpTo({LineNanLat, LineNanLatUpper}, MaxLines)
                \cup SeqsUpTo({LineNanLon, LineNanLonSpaces}, MaxLines)
                \cup SeqsUpTo({LineShort, LineBlankTail, LineTwoFields, LineLong},
                              MaxLines)}
\* The twelve monthly files: month m holds the value m, but for one month
\* whose content is one of SmallFiles.
InitMonthly ==
    \E up \in BOOLEAN, sm \in 1..12, c \in SmallFiles :
        Call(SlotList(1, 12, up), an, "01-12",
             [p \in Range(SlotList(1, 12, TRUE)) |->
                LET m == CHOOSE s \in 1..12 : p = WoaPath(download_dir, "t", s, an)
                IN  IF m = sm THEN c ELSE SlotFile(m)])

\* The caller has made this one call, no other call is in progress and
\* the archive fetcher is not running.
OneCall ==
    /\ calls = 1
    /\ first = None
    /\ running = 1
    /\ other = None
EtopoIdle ==
    /\ e_pc = "idle"
    /\ e_args = None
    /\ e_local = None
    /\ e_fs = <<>>
    /\ e_ret = None
    /\ e_calls = 0
WoaIdle ==
    /\ g_pc = "idle"
    /\ g_args = None
    /\ g_local = None
    /\ g_fs = <<>>
    /\ g_db = [exists |-> FALSE, rows |-> <<>>]
    /\ g_http = <<>>
    /\ g_today = 0
    /\ g_ret = None
    /\ g_cite = None
    /\ g_calls = 0

FetcherIdle == WoaIdle /\ EtopoIdle

Init ==
    /\ \/ InitContent \/ InitSelect \/ InitArchive \/ InitSeasonal
       \/ InitMonthly \/ InitMixed
    /\ OneCall
    /\ FetcherIdle

Next ==
    \/ Validate
    \/ Filter
    \/ SortFiles
    \/ OpenFirst
    \/ ReadDepths
    \/ Pass1Open
    \/ Pass1Read
    \/ SortCoords
    \/ TimeAxis
    \/ Allocate
    \/ Pass2Open
    \/ Pass2Read
    \/ Return

Spec == Init /\ [][Next]_vars

\* Lists with the number of files the time code expects whose slots are not
\* the expected ones: the months 00..11; the seasons with two winter files
\* (of two directories) and no autumn file; the seasons with the winter file
\* named twice. Beside them the twelve months and the four seasons.
SlotLists ==
    {SlotList(0, 11, TRUE),
     <<WoaPath(download_dir, "t", 13, an), WoaPath(other_dir, "t", 13, an),
       WoaPath(download_dir, "t", 14, an), WoaPath(download_dir, "t", 15, an)>>,
     <<WoaPath(download_dir, "t", 13, an), WoaPath(download_dir, "t", 13, an),
       WoaPath(download_dir, "t", 14, an), WoaPath(download_dir, "t", 15, an)>>,
     SlotList(1, 12, TRUE),
     SlotList(13, 16, TRUE)}
InitSlots ==
    /\ \E files \in SlotLists, tc \in {"01-12", "13-16"} :
          Call(files, an, tc, [p \in Range(files) |-> SlotFile(SlotCode(p, an))])
    /\ OneCall
    /\ FetcherIdle

\* The same call on lists with repeated or missing slots.
SpecSlots == InitSlots /\ [][Next]_vars

InitNan ==
    /\ \E file \in NanFiles :
          Call(<<AnnualPath>>, an, "00", [p \in {AnnualPath} |-> file])
    /\ OneCall
    /\ FetcherIdle

\* The same call on files with nan coordinates.
SpecNan == InitNan /\ [][Next]_vars

(***************************************************************************)
(* get_woa and get_citation (woa.py), the downloads table (database.py)    *)
(***************************************************************************)
MaxFetches == 2      \* get_woa calls in a row
MaxDay == 2          \* days that pass while the program is used

\* The variables of read_woa_csv and of its callers.
rvars == <<vars, calls, first, running, other>>

decav == <<"d","e","c","a","v">>
variable_map ==
    [v \in {"t", "s", "i", "n", "p", "o", "O", "A"} |->
        CASE v = "t" -> "temperature" [] v = "s" -> "salinity"
          [] v = "i" -> "silicate" [] v = "n" -> "nitrate"
          [] v = "p" -> "phosphate" [] v = "o" -> "oxygen"
          [] v = "O" -> "o2sat" [] v = "A" -> "AOU"]
time_span_map ==
    [t \in {<<"5","5","6","4">>, <<"6","5","7","4">>,
            <<"7","5","8","4">>, <<"8","5","9","4">>,
            <<"9","5","A","4">>, <<"A","5","B","4">>,
            <<"B","5","C","2">>,
            <<"d","e","c","a","v","7","1","A","0">>,
            <<"d","e","c","a","v","8","1","B","0">>,
            <<"d","e","c","a","v","9","1","C","0">>,
            decav, <<"a","l","l">>} |-> "span"]
resolution_map ==
    [r \in {<<"1","d","e","g">>, <<"1",".","0","0">>,
            <<"0",".","2","5","d","e","g">>, <<"0",".","2","5">>,
            <<"5","d","e","g">>, <<"5",".","0","0">>} |->
        IF r[1] = "1" THEN <<"1",".","0","0">>
        ELSE IF r[1] = "0" THEN <<"0",".","2","5">>
        ELSE <<"5",".","0","0">>]

\* f"woa23_{v}_{t}_{r_mapped}_csv.tar.gz"
file_name(v, t, r_mapped) ==
    <<"w","o","a","2","3","_">> \o <<v>> \o <<"_">> \o t \o <<"_">> \o r_mapped
        \o <<"_","c","s","v",".","t","a","r",".","g","z">>

\* The URL, as its components under base_url.
download_url(v, t, r_mapped) ==
    <<variable_map[v], "csv", t, r_mapped, file_name(v, t, r_mapped)>>

\* os.path.join(dir, name), str.endswith
join(dir, name) == dir \o <<"/">> \o name
endswith(s, suffix) ==
    /\ Len(s) >= Len(suffix)
    /\ SubSeq(s, Len(s) - Len(suffix) + 1, Len(s)) = suffix
csv_gz == <<".","c","s","v",".","g","z">>
csv == <<".","c","s","v">>

\* What a file of the download directory holds: a whole tar.gz archive (its
\* members), the head of one, a gzip stream, or plain bytes.
Tar(members) == [kind |-> "tar", body |-> members]
Truncated == [kind |-> "truncated", body |-> <<>>]
Gz(lines) == [kind |-> "gz", body |-> lines]
Plain(lines) == [kind |-> "plain", body |-> lines]

\* The archive the server holds for variable v: a compressed CSV, a CSV that
\* is not compressed, and a file that is no CSV.
WoaName(v, slot, field) ==
    <<"w","o","a","2","3","_","d","e","c","a","v","_">> \o <<v>> \o TwoDigit(slot) \o field
        \o <<"0","1",".","c","s","v">>
Members(v) ==
    <<[name |-> WoaName(v, 0, an) \o <<".","g","z">>, content |-> Gz(SlotFile(0))],
      [name |-> <<"r","e","a","d","m","e",".","t","x","t">>, content |-> Plain(<<InfoLine>>)],
      [name |-> WoaName(v, 13, an), content |-> Plain(SlotFile(13))],
      [name |-> WoaName(v, 1, an) \o <<".","g","z">>, content |-> Gz(SlotFile(1))]>>
Served(v) == Tar(Members(v))

\* The files of the download directory: path -> content.
Write(fs, path, content) ==
    [p \in DOMAIN fs \cup {path} |-> IF p = path THEN content ELSE fs[p]]
Remove(fs, path) == [p \in DOMAIN fs \ {path} |-> fs[p]]

\* tar.extractall(path=download_dir)
RECURSIVE extractall(_, _, _)
extractall(fs, members, dir) ==
    IF Len(members) = 0 THEN fs
    ELSE extractall(Write(fs, join(dir, Head(members).name), Head(members).content),
                    Tail(members), dir)

\* Variant: the .gz file is kept after it is decompressed.
RECURSIVE Gunzip_KeepGz(_, _)
Gunzip_KeepGz(st, gz_files) ==
    IF Len(gz_files) = 0 THEN st
    ELSE LET gz_file == Head(gz_files)
             csv_path == SubSeq(gz_file, 1, Len(gz_file) - 3)
         IN  Gunzip_KeepGz(
                 [fs |-> Write(st.fs, csv_path, Plain(st.fs[gz_file].body)),
                  extracted_files |-> Append(st.extracted_files, csv_path),
                  written |-> Append(st.written, csv_path)],
                 Tail(gz_files))

\* Lines 280-289: each .csv.gz file is decompressed next to itself and
\* removed, and the path of the CSV is appended to extracted_files.
RECURSIVE Gunzip(_, _)
Gunzip(st, gz_files) ==
    IF Len(gz_files) = 0 THEN st
    ELSE LET gz_file == Head(gz_files)
             csv_path == SubSeq(gz_file, 1, Len(gz_file) - 3)
         IN  Gunzip([fs |-> Remove(Write(st.fs, csv_path,
                                         Plain(st.fs[gz_file].body)), gz_file),
                     extracted_files |-> Append(st.extracted_files, csv_path),
                     written |-> Append(st.written, csv_path)],
                    Tail(gz_files))

\* database.py. The table is a map filename (primary key) -> row; a date is
\* its day number, whose order is the order of its '%Y-%m-%d' text.
init_database(db) == [db EXCEPT !.exists = TRUE]
record_download(db, filename, variable, today) ==
    [db EXCEPT !.rows = Write(db.rows, filename,
                              [variable |-> variable, download_date |-> today])]
\* The row fetchone() gives: <<download_date>>, or <<>> when there is none.
get_download_date(db, variable) ==
    LET dates == {db.rows[f].download_date :
                     f \in {g \in DOMAIN db.rows : db.rows[g].variable = variable}}
    IN  IF dates = {} THEN None ELSE <<SetMax(dates)>>

NoLocals ==
    [r_mapped |-> <<>>, file_name |-> <<>>, local_path |-> <<>>,
     extracted_files |-> <<>>,
     existed |-> FALSE,        \* the archive was there at the exists test
     downloaded |-> FALSE,     \* this call downloaded the archive, whole
     requests |-> 0,           \* HTTP requests this call made
     written |-> <<>>]         \* paths this call wrote, in order
NoReturn == [value |-> None, err |-> ""]

GRaise(e) ==
    /\ g_pc' = "raised"
    /\ g_ret' = [value |-> None, err |-> e]

\* The argument triples of the calls: the 1-degree decav archives of
\* temperature and salinity, under both spellings of the resolution, and a
\* bad code for each argument.
GetWoaArgs ==
    {[v |-> "t", t |-> decav, r |-> <<"1",".","0","0">>],
     [v |-> "t", t |-> decav, r |-> <<"1","d","e","g">>],
     [v |-> "s", t |-> decav, r |-> <<"1",".","0","0">>],
     [v |-> "x", t |-> decav, r |-> <<"1",".","0","0">>],
     [v |-> "t", t |-> <<"d","e","c">>, r |-> <<"1",".","0","0">>],
     [v |-> "t", t |-> decav, r |-> <<"2",".","0","0">>]}

\* get_woa(v, t, r) is called.
GetWoa ==
    /\ g_pc \in {"idle", "returned", "raised"}
    /\ g_calls < MaxFetches
    /\ \E a \in GetWoaArgs : g_args' = a
    /\ g_local' = NoLocals
    /\ g_ret' = NoReturn
    /\ g_calls' = g_calls + 1
    /\ g_pc' = "validate"
    /\ UNCHANGED <<rvars, evars, g_fs, g_db, g_http, g_today, g_cite>>

\* Lines 185-208.
GValidate ==
    /\ g_pc = "validate"
    /\ IF \/ g_args.v \notin DOMAIN variable_map
          \/ g_args.t \notin DOMAIN time_span_map
          \/ g_args.r \notin DOMAIN resolution_map
       THEN /\ GRaise("ValueError")
            /\ UNCHANGED g_local
       ELSE /\ g_local' = [g_local EXCEPT
                   !.r_mapped = resolution_map[g_args.r],
                   !.file_name = file_name(g_args.v, g_args.t,
                                           resolution_map[g_args.r])]
            /\ g_pc' = "setup"
            /\ UNCHANGED g_ret
    /\ UNCHANGED <<rvars, evars, g_args, g_fs, g_db, g_http, g_today, g_cite, g_calls>>

\* Lines 214-222: the directory, the downloads table, local_path.
GSetup ==
    /\ g_pc = "setup"
    /\ g_db' = init_database(g_db)
    /\ g_local' = [g_local EXCEPT !.local_path = join(download_dir, g_local.file_name)]
    /\ g_pc' = "check"
    /\ UNCHANGED <<rvars, evars, g_args, g_fs, g_http, g_today, g_ret, g_cite, g_calls>>

\* Variant: the archive is downloaded whether it is there or not.
GCheck_AlwaysDownload ==
    /\ g_pc = "check"
    /\ g_local' = [g_local EXCEPT !.existed = g_local.local_path \in DOMAIN g_fs]
    /\ g_pc' = "request"
    /\ UNCHANGED <<rvars, evars, g_args, g_fs, g_db, g_http, g_today, g_ret, g_cite, g_calls>>

\* Lines 225-228: os.path.exists(local_path).
GCheck ==
    /\ g_pc = "check"
    /\ IF g_local.local_path \in DOMAIN g_fs
       THEN /\ g_local' = [g_local EXCEPT !.existed = TRUE]
            /\ g_pc' = "record"
       ELSE /\ g_pc' = "request"
            /\ UNCHANGED g_local
    /\ UNCHANGED <<rvars, evars, g_args, g_fs, g_db, g_http, g_today, g_ret, g_cite, g_calls>>

\* Lines 230-231: the request; the server answers with the archive or with
\* an error status, which raise_for_status raises.
GRequest ==
    /\ g_pc = "request"
    /\ g_http' = Append(g_http,
           [url |-> download_url(g_args.v, g_args.t, g_local.r_mapped),
            variable |-> g_args.v, day |-> g_today, complete |-> FALSE])
    /\ g_local' = [g_local EXCEPT !.requests = @ + 1]
    /\ \E ok \in BOOLEAN :
          IF ok THEN g_pc' = "stream" /\ UNCHANGED g_ret
          ELSE GRaise("HTTPError")
    /\ UNCHANGED <<rvars, evars, g_args, g_fs, g_db, g_today, g_cite, g_calls>>

\* Lines 232-240: local_path is opened for writing and the chunks are
\* written to it; the stream ends, or breaks and iter_content raises.
GStream ==
    /\ g_pc = "stream"
    /\ \E whole \in BOOLEAN :
          /\ g_fs' = Write(g_fs, g_local.local_path,
                           IF whole THEN Served(g_args.v) ELSE Truncated)
          /\ g_local' = [g_local EXCEPT !.written = Append(@, g_local.local_path),
                                        !.downloaded = whole]
          /\ IF whole
             THEN /\ g_http' = [g_http EXCEPT ![Len(g_http)].complete = TRUE]
                  /\ g_pc' = "record"
                  /\ UNCHANGED g_ret
             ELSE /\ GRaise("ConnectionError")
                  /\ UNCHANGED g_http
    /\ UNCHANGED <<rvars, evars, g_args, g_db, g_today, g_cite, g_calls>>

\* Lines 244-247: if not os.path.exists(local_path): record_download(...).
GRecord ==
    /\ g_pc = "record"
    /\ g_db' = IF g_local.local_path \notin DOMAIN g_fs
               THEN record_download(g_db, g_local.file_name, g_args.v, g_today)
               ELSE g_db
    /\ g_pc' = "extract"
    /\ UNCHANGED <<rvars, evars, g_args, g_local, g_fs, g_http, g_today, g_ret, g_cite, g_calls>>

\* Lines 250-263: file_name ends in .tar.gz, so the tar branch is taken. A
\* file that is not a whole archive makes tarfile raise before a member is
\* extracted.
GExtract ==
    /\ g_pc = "extract"
    /\ IF g_local.local_path \notin DOMAIN g_fs
       THEN GRaise("FileNotFoundError") /\ UNCHANGED <<g_fs, g_local>>
       ELSE IF g_fs[g_local.local_path].kind # "tar"
       THEN GRaise("ReadError") /\ UNCHANGED <<g_fs, g_local>>
       ELSE LET members == g_fs[g_local.local_path].body
                paths == [i \in 1..Len(members) |->
                             join(download_dir, members[i].name)]
            IN  /\ g_fs' = extractall(g_fs, members, download_dir)
                /\ g_local' = [g_local EXCEPT !.extracted_files = paths,
                                              !.written = @ \o paths]
                /\ g_pc' = "gunzip"
                /\ UNCHANGED g_ret
    /\ UNCHANGED <<rvars, evars, g_args, g_db, g_http, g_today, g_cite, g_calls>>

\* Lines 280-289.
GGunzip ==
    /\ g_pc = "gunzip"
    /\ LET Is(f) == endswith(f, csv_gz)
           st == Gunzip([fs |-> g_fs,
                         extracted_files |-> g_local.extracted_files,
                         written |-> g_local.written],
                        SelectSeq(g_local.extracted_files, Is))
       IN  /\ g_fs' = st.fs
           /\ g_local' = [g_local EXCEPT !.extracted_files = st.extracted_files,
                                         !.written = st.written]
    /\ g_pc' = "return"
    /\ UNCHANGED <<rvars, evars, g_args, g_db, g_http, g_today, g_ret, g_cite, g_calls>>

\* Lines 292-293.
GReturn ==
    /\ g_pc = "return"
    /\ LET Is(f) == endswith(f, csv)
       IN  g_ret' = [value |-> SelectSeq(g_local.extracted_files, Is), err |-> ""]
    /\ g_pc' = "returned"
    /\ UNCHANGED <<rvars, evars, g_args, g_local, g_fs, g_db, g_http, g_today, g_cite, g_calls>>

\* get_citation(variable), lines 14-27 and 61-66: the access date is the
\* date of the latest row of the variable, today's date if there is none.
\* Without a downloads table the SELECT raises.
GetCitation ==
    /\ g_pc \in {"idle", "returned", "raised"}
    /\ \E variable \in {"t", "s"} :
          g_cite' =
              IF ~g_db.exists
              THEN [variable |-> variable, access_date |-> None,
                    day |-> g_today, err |-> "OperationalError"]
              ELSE LET row == get_download_date(g_db, variable)
                   IN  [variable |-> variable,
                        access_date |-> IF row # None THEN row ELSE <<g_today>>,
                        day |-> g_today, err |-> ""]
    /\ UNCHANGED <<rvars, evars, g_pc, g_args, g_local, g_fs, g_db, g_http, g_today, g_ret, g_calls>>

\* A day passes between two calls.
NextDay ==
    /\ g_pc \in {"idle", "returned", "raised"}
    /\ g_today < MaxDay
    /\ g_today' = g_today + 1
    /\ UNCHANGED <<rvars, evars, g_pc, g_args, g_local, g_fs, g_db, g_http, g_ret, g_cite, g_calls>>

\* The download directory before the calls: not there yet, or as an earlier
\* call left it: with the archive of temperature and what was extracted from
\* it, or with the head of that archive. The table has no row.
TemperatureArchive == join(download_dir, file_name("t", decav, <<"1",".","0","0">>))
FetchedBefore ==
    Gunzip([fs |-> extractall(Write(<<>>, TemperatureArchive, Served("t")),
                              Members("t"), download_dir),
            extracted_files |-> <<>>, written |-> <<>>],
           <<join(download_dir, Members("t")[1].name),
             join(download_dir, Members("t")[4].name)>>).fs
InitFetch ==
    /\ Call(<<AnnualPath>>, an, "00", [p \in {AnnualPath} |-> SlotFile(0)])
    /\ OneCall
    /\ g_pc = "idle"
    /\ g_args = None
    /\ g_local = NoLocals
    /\ g_fs \in {<<>>, FetchedBefore, Write(<<>>, TemperatureArchive, Truncated)}
    /\ g_db = [exists |-> g_fs # <<>>, rows |-> <<>>]
    /\ g_http = <<>>
    /\ g_today = 0
    /\ g_ret = NoReturn
    /\ g_cite = None
    /\ g_calls = 0
    /\ EtopoIdle

NextFetch ==
    \/ GetWoa \/ GValidate \/ GSetup \/ GCheck \/ GRequest \/ GStream
    \/ GRecord \/ GExtract \/ GGunzip \/ GReturn \/ GetCitation \/ NextDay

SpecFetch == InitFetch /\ [][NextFetch]_<<vars, outside>>

(***************************************************************************)
(* get_etopo (src/etopotools/src/etopotools/core.py)                       *)
(***************************************************************************)
MaxEtopoCalls == 2   \* get_etopo calls in a row

valid_models == {"ice", "bed", "geoid"}
valid_res == {"15", "30", "60"}

\* Lines 73-81: the file name, as its pieces; the model 'ice' is named
\* 'surface' in it.
etopo_filename(model, resolution) ==
    <<"ETOPO_2022_v1_", resolution, "s_N90W180_",
      IF model = "ice" THEN "surface" ELSE model, ".nc">>

EtopoArgs ==
    {[model |-> m, resolution |-> "60"] : m \in {"ice", "bed", "geoid", "sea"}}
        \cup {[model |-> "ice", resolution |-> "15"],
              [model |-> "ice", resolution |-> "1"]}

EtopoLocals ==
    [filename |-> <<>>, local_path |-> <<>>,
     checked |-> {},           \* paths that nc.Dataset opened in this call
     found_corrupt |-> FALSE,  \* the file was there and failed the check
     requests |-> 0,           \* HTTP requests this call made
     downloaded |-> FALSE]     \* the stream of this call ran to its end

ERaise(e) ==
    /\ e_pc' = "raised"
    /\ e_ret' = [value |-> None, err |-> e]

\* get_etopo(model, resolution) is called.
GetEtopo ==
    /\ e_pc \in {"idle", "returned", "raised"}
    /\ e_calls < MaxEtopoCalls
    /\ \E a \in EtopoArgs : e_args' = a
    /\ e_local' = EtopoLocals
    /\ e_ret' = NoReturn
    /\ e_calls' = e_calls + 1
    /\ e_pc' = "validate"
    /\ UNCHANGED <<rvars, wvars, e_fs>>

\* Lines 62-88.
EValidate ==
    /\ e_pc = "validate"
    /\ IF e_args.model \notin valid_models \/ e_args.resolution \notin valid_res
       THEN /\ ERaise("ValueError")
            /\ UNCHANGED e_local
       ELSE /\ e_local' = [e_local EXCEPT
                   !.filename = etopo_filename(e_args.model, e_args.resolution),
                   !.local_path = <<"etopo_downloads">>
                       \o etopo_filename(e_args.model, e_args.resolution)]
            /\ e_pc' = "exists"
            /\ UNCHANGED e_ret
    /\ UNCHANGED <<rvars, wvars, e_args, e_fs, e_calls>>

\* Variant: a file that is there is returned without the check.
EExists_ReturnAsIs ==
    /\ e_pc = "exists"
    /\ IF e_local.local_path \in DOMAIN e_fs
       THEN /\ e_local' = [e_local EXCEPT
                   !.found_corrupt = e_fs[e_local.local_path] # "netcdf"]
            /\ e_ret' = [value |-> e_local.local_path, err |-> ""]
            /\ e_pc' = "returned"
       ELSE /\ e_pc' = "request"
            /\ UNCHANGED <<e_local, e_ret>>
    /\ UNCHANGED <<rvars, wvars, e_args, e_fs, e_calls>>

\* Lines 90-101: a file that is there is opened with nc.Dataset; it is
\* returned if that works, and downloaded again if OSError is raised.
EExists ==
    /\ e_pc = "exists"
    /\ IF e_local.local_path \notin DOMAIN e_fs
       THEN /\ e_pc' = "request"
            /\ UNCHANGED <<e_local, e_ret>>
       ELSE IF e_fs[e_local.local_path] = "netcdf"
       THEN /\ e_local' = [e_local EXCEPT !.checked = @ \cup {e_local.local_path}]
            /\ e_ret' = [value |-> e_local.local_path, err |-> ""]
            /\ e_pc' = "returned"
       ELSE /\ e_local' = [e_local EXCEPT !.found_corrupt = TRUE]
            /\ e_pc' = "request"
            /\ UNCHANGED e_ret
    /\ UNCHANGED <<rvars, wvars, e_args, e_fs, e_calls>>

\* Lines 104-105.
ERequest ==
    /\ e_pc = "request"
    /\ e_local' = [e_local EXCEPT !.requests = @ + 1]
    /\ \E ok \in BOOLEAN :
          IF ok THEN e_pc' = "stream" /\ UNCHANGED e_ret
          ELSE ERaise("HTTPError")
    /\ UNCHANGED <<rvars, wvars, e_args, e_fs, e_calls>>

\* Lines 117-131: local_path is opened for writing and the chunks are
\* written: the bytes of a NetCDF file, other bytes, or the head of the
\* file when the stream breaks and iter_content raises.
EStream ==
    /\ e_pc = "stream"
    /\ \E got \in {"netcdf", "other", "broken"} :
          /\ e_fs' = Write(e_fs, e_local.local_path,
                           IF got = "netcdf" THEN "netcdf" ELSE "corrupt")
          /\ IF got = "broken"
             THEN /\ ERaise("ConnectionError")
                  /\ UNCHANGED e_local
             ELSE /\ e_local' = [e_local EXCEPT !.downloaded = TRUE]
                  /\ e_pc' = "verify"
                  /\ UNCHANGED e_ret
    /\ UNCHANGED <<rvars, wvars, e_args, e_calls>>

\* Lines 133-141: the downloaded file is opened with nc.Dataset.
EVerify ==
    /\ e_pc = "verify"
    /\ IF e_fs[e_local.local_path] = "netcdf"
       THEN /\ e_local' = [e_local EXCEPT !.checked = @ \cup {e_local.local_path}]
            /\ e_ret' = [value |-> e_local.local_path, err |-> ""]
            /\ e_pc' = "returned"
       ELSE /\ ERaise("RuntimeError")
            /\ UNCHANGED e_local
    /\ UNCHANGED <<rvars, wvars, e_args, e_fs, e_calls>>

\* The directory etopo_downloads before the calls: empty, or with the
\* ice file of 60 arc-seconds, readable or not.
InitEtopo ==
    /\ Call(<<AnnualPath>>, an, "00", [p \in {AnnualPath} |-> SlotFile(0)])
    /\ OneCall
    /\ WoaIdle
    /\ e_pc = "idle"
    /\ e_args = None
    /\ e_local = EtopoLocals
    /\ \E content \in {"none", "netcdf", "corrupt"} :
          e_fs = IF content = "none" THEN <<>>
                 ELSE Write(<<>>, <<"etopo_downloads">> \o etopo_filename("ice", "60"),
                            content)
    /\ e_ret = NoReturn
    /\ e_calls = 0

NextEtopo ==
    \/ GetEtopo \/ EValidate \/ EExists \/ ERequest \/ EStream \/ EVerify

SpecEtopo == InitEtopo /\ [][NextEtopo]_<<vars, outside>>

(***************************************************************************)
(* Two calls of read_woa_csv in two threads, on disjoint files              *)
(***************************************************************************)
\* The frame of the call that is running: its arguments, its locals, where
\* it is, the files it holds open, what it raised or returned.
Frame ==
    [csv_files |-> csv_files, field_code |-> field_code,
     time_code |-> time_code, pc |-> pc, bound |-> bound,
     pattern |-> pattern, expected_files |-> expected_files,
     filtered_files |-> filtered_files, depths |-> depths,
     all_lats |-> all_lats, all_lons |-> all_lons, lats |-> lats,
     lons |-> lons, n_time |-> n_time, time_values |-> time_values,
     data |-> data, lat_idx |-> lat_idx, lon_idx |-> lon_idx, fidx |-> fidx,
     open_files |-> open_files, opened |-> opened, err |-> err,
     result |-> result]

\* The frame of a call that has not made a step yet.
StartFrame(files, fc, tc) ==
    [csv_files |-> files, field_code |-> fc, time_code |-> tc,
     pc |-> "validate", bound |-> {}, pattern |-> <<>>, expected_files |-> 0,
     filtered_files |-> <<>>, depths |-> <<>>, all_lats |-> {},
     all_lons |-> {}, lats |-> <<>>, lons |-> <<>>, n_time |-> 0,
     time_values |-> <<>>, data |-> None, lat_idx |-> <<>>, lon_idx |-> <<>>,
     fidx |-> 0, open_files |-> {}, opened |-> <<>>, err |-> NoError,
     result |-> None]

\* Variant: the coordinate sets are module-level, one pair for both calls.
Switch_SharedSets ==
    /\ other # None
    /\ other' = Frame
    /\ running' = 3 - running
    /\ csv_files' = other.csv_files
    /\ field_code' = other.field_code
    /\ time_code' = other.time_code
    /\ pc' = other.pc
    /\ bound' = other.bound
    /\ pattern' = other.pattern
    /\ expected_files' = other.expected_files
    /\ filtered_files' = other.filtered_files
    /\ depths' = other.depths
    /\ lats' = other.lats
    /\ lons' = other.lons
    /\ n_time' = other.n_time
    /\ time_values' = other.time_values
    /\ data' = other.data
    /\ lat_idx' = other.lat_idx
    /\ lon_idx' = other.lon_idx
    /\ fidx' = other.fidx
    /\ open_files' = other.open_files
    /\ opened' = other.opened
    /\ err' = other.err
    /\ result' = other.result
    /\ UNCHANGED <<calls, first, gvars, disk, all_lats, all_lons>>

\* The scheduler suspends the running call and resumes the other one, where
\* it was. Nothing of a frame is seen by the other call; the files on disk
\* are.
Switch ==
    /\ other # None
    /\ other' = Frame
    /\ running' = 3 - running
    /\ csv_files' = other.csv_files
    /\ field_code' = other.field_code
    /\ time_code' = other.time_code
    /\ pc' = other.pc
    /\ bound' = other.bound
    /\ pattern' = other.pattern
    /\ expected_files' = other.expected_files
    /\ filtered_files' = other.filtered_files
    /\ depths' = other.depths
    /\ all_lats' = other.all_lats
    /\ all_lons' = other.all_lons
    /\ lats' = other.lats
    /\ lons' = other.lons
    /\ n_time' = other.n_time
    /\ time_values' = other.time_values
    /\ data' = other.data
    /\ lat_idx' = other.lat_idx
    /\ lon_idx' = other.lon_idx
    /\ fidx' = other.fidx
    /\ open_files' = other.open_files
    /\ opened' = other.opened
    /\ err' = other.err
    /\ result' = other.result
    /\ UNCHANGED <<calls, first, gvars, disk>>

\* What read_woa_csv(files, fc, tc) gives when it runs alone on the files
\* fs: the error it raises, or the grid and the coordinates it returns.
RECURSIVE Pass1Files(_, _, _)
Pass1Files(acc, files, fs) ==
    IF Len(files) = 0 THEN acc
    ELSE Pass1Files(Pass1Lines(acc, DataLines(fs[Head(files)])), Tail(files), fs)

RECURSIVE Pass2Files(_, _, _, _, _, _)
Pass2Files(arr, files, fs, t, latidx, lonidx) ==
    IF Len(files) = 0 THEN arr
    ELSE Pass2Files(Pass2Lines(arr, DataLines(fs[Head(files)]), t, latidx, lonidx),
                    Tail(files), fs, t + 1, latidx, lonidx)

ReadAlone(files, fc, tc, fs) ==
    LET selected == FilterFiles(files, Pattern(tc, fc))
        ordered == sort(selected)
        axes == Pass1Files([lats |-> {}, lons |-> {}], ordered, fs)
        la == sorted(axes.lats)
        lo == sorted(axes.lons)
        de == ParseDepths(fs[ordered[1]])
        grid == Pass2Files(np_full(GridShape(la, lo, de, Len(ordered))),
                           ordered, fs, 0, EnumerateIdx(la), EnumerateIdx(lo))
    IN  IF tc \notin ValidTimeCodes
        THEN [err |-> [exc |-> "ValueError", kind |-> "InvalidSelector"],
              result |-> None]
        ELSE IF FilterError(selected, ExpectedFiles(tc)) # NoError
        THEN [err |-> FilterError(selected, ExpectedFiles(tc)), result |-> None]
        ELSE IF DepthError(fs[ordered[1]]) # NoError
        THEN [err |-> DepthError(fs[ordered[1]]), result |-> None]
        ELSE IF Len(ordered) \notin {12, 4, 1}
        THEN [err |-> [exc |-> "ValueError", kind |-> "UnexpectedCount"],
              result |-> None]
        ELSE [err |-> NoError,
              result |-> <<grid, [lat |-> la, lon |-> lo, depth |-> de,
                                  time |-> TimeValues(Len(ordered))]>>]

\* Thread 1 reads the annual temperature file, thread 2 the annual salinity
\* file; each file has one of a few contents.
SalinityPath == WoaPath(download_dir, "s", 0, an)
PairFiles == SmallFiles \cup {File(Depths1, <<LineBlankHead, LineLong>>)}
InitPair ==
    \E c1 \in PairFiles, c2 \in PairFiles :
        /\ Call(<<AnnualPath>>, an, "00",
                [p \in {AnnualPath, SalinityPath} |->
                    IF p = AnnualPath THEN c1 ELSE c2])
        /\ other = StartFrame(<<SalinityPath>>, an, "00")
        /\ running = 1
        /\ calls = 1
        /\ first = None
        /\ FetcherIdle

NextPair == Next \/ Switch

SpecPair == InitPair /\ [][NextPair]_<<vars, outside>>

(***************************************************************************)
(* The caller calls read_woa_csv again with the same arguments              *)
(***************************************************************************)
MaxCalls == 2        \* calls the caller makes in a row

\* What a call that has ended gave its caller.
Outcome == [err |-> err, result |-> result]

\* The next call starts when the last one has returned or raised. Its frame
\* is new: no local is bound (the values the names held are left as they
\* were, and are dead), nothing is open, nothing is returned yet.
CallAgain ==
    /\ pc \in {"done", "raised"}
    /\ calls < MaxCalls
    /\ calls' = calls + 1
    /\ first' = IF calls = 1 THEN Outcome ELSE first
    /\ pc' = "validate"
    /\ bound' = {}
    /\ opened' = <<>>
    /\ err' = NoError
    /\ result' = None
    /\ UNCHANGED <<running, other, gvars, disk, csv_files, field_code,
                   time_code, pattern, expected_files, filtered_files, depths,
                   all_lats, all_lons, lats, lons, n_time, time_values, data,
                   lat_idx, lon_idx, fidx, open_files>>

NextAgain == Next \/ CallAgain

SpecAgain == Init /\ [][NextAgain]_<<vars, outside>>

(***************************************************************************)
(* Properties                                                              *)
(***************************************************************************)
Fields(line) == split(strip(line), <<",">>)
HasLatLon(line) ==
    /\ Len(Fields(line)) >= 2
    /\ float_ok(Fields(line)[1])
    /\ float_ok(Fields(line)[2])

\* The values a file gives for (lat, lon) at depth index k: those of its
\* data lines with that latitude and longitude whose k-th value field is
\* non-blank and numeric.
ValuesAt(file, lat, lon, k) ==
    {float(Fields(l)[k + 3]) :
        l \in {x \in Range(DataLines(file)) :
                /\ HasLatLon(x)
                /\ float(Fields(x)[1]) = lat
                /\ float(Fields(x)[2]) = lon
                /\ Len(Fields(x)) >= k + 3
                /\ strip(Fields(x)[k + 3]) # <<>>
                /\ float_ok(Fields(x)[k + 3])}}

\* A cell agrees with a file: missing when the file gives no value for it,
\* else one of the values the file gives.
CellFrom(cell, file, lat, lon, k) ==
    IF ValuesAt(file, lat, lon, k) = {} THEN cell = NaN
    ELSE cell # NaN /\ cell[1] \in ValuesAt(file, lat, lon, k)

StrictlyAscending(s) == \A i \in 1..(Len(s) - 1) : s[i] < s[i + 1]

FatalKinds ==
    {"InvalidSelector", "NoMatchingFiles", "FileCountMismatch", "MalformedHeader"}

\* C1: a call that ends in one of the four fatal errors (invalid time code,
\* no matching files, file count mismatch, malformed depth header) has not
\* allocated the output array and has returned nothing.
C1_FatalBeforeAllocation ==
    (pc = "raised" /\ err.kind \in FatalKinds)
        => ("data" \notin bound /\ data = None /\ result = None)

\* C1 witness: a malformed depth header was raised, after the file was opened.
C1_Witness ==
    /\ pc = "raised"
    /\ err.kind = "MalformedHeader"
    /\ Len(opened) = 1

\* C2: for a valid time code, an empty selection fails with NoMatchingFiles,
\* a non-empty selection of another size than expected (1 annual, 12
\* monthly, 4 seasonal) fails with FileCountMismatch, and the call goes on to
\* parsing only with the expected number of files.
C2_FileCountChecks ==
    (time_code \in ValidTimeCodes /\ "filtered_files" \in bound) =>
        LET n == Len(filtered_files)
            expected == IF time_code = "00" THEN 1
                        ELSE IF time_code = "01-12" THEN 12 ELSE 4
        IN  /\ n = 0 => (pc = "raised" /\ err.kind = "NoMatchingFiles")
            /\ (n # 0 /\ n # expected)
                   => (pc = "raised" /\ err.kind = "FileCountMismatch")
            /\ n = expected
                   => ~(pc = "raised"
                        /\ err.kind \in {"NoMatchingFiles", "FileCountMismatch"})
            /\ (pc # "raised" \/ opened # <<>>) => n = expected

\* C2 witness: an annual load that selected two files was refused.
C2_Witness ==
    /\ time_code = "00"
    /\ Len(filtered_files) = 2
    /\ pc = "raised"
    /\ err.kind = "FileCountMismatch"

\* C3: every time code other than '00', '01-12' and '13-16' fails with
\* InvalidSelector whatever the file list is, before any file is filtered
\* or opened.
C3_InvalidTimeCode ==
    (time_code \notin {"00", "01-12", "13-16"} /\ pc # "validate") =>
        /\ pc = "raised"
        /\ err = [exc |-> "ValueError", kind |-> "InvalidSelector"]
        /\ "filtered_files" \notin bound
        /\ opened = <<>>

\* C3 witness: an invalid time code was refused with an empty file list.
C3_Witness ==
    /\ time_code = "13"
    /\ csv_files = <<>>
    /\ pc = "raised"
    /\ err.kind = "InvalidSelector"

\* C4 (as claimed): with the monthly time code and a list that holds, for one
\* field code, one file for each slot 00..16, exactly the twelve files of
\* slots 01..12 are selected and the load is not refused.
C4_MonthlySelectsSlots1to12 ==
    (/\ time_code = "01-12"
     /\ csv_files = ArchiveList(<<field_code>>)
     /\ "filtered_files" \in bound) =>
        /\ Range(filtered_files) =
               {WoaPath(download_dir, "t", s, field_code) : s \in 1..12}
        /\ pc # "raised"

\* C5: from the complete CSV list of one archive, the annual load of 'an'
\* selects exactly the slot-00 'an' file and the seasonal load of 'an'
\* exactly the four 'an' files of slots 13..16; neither call fails, and each
\* returns a 4-dimensional array.
C5_ArchiveAnnualSeasonal ==
    (csv_files = ArchiveList(FieldCodes) /\ field_code = an
     /\ time_code \in {"00", "13-16"}) =>
        /\ pc # "raised"
        /\ "filtered_files" \in bound =>
               /\ Len(filtered_files) = (IF time_code = "00" THEN 1 ELSE 4)
               /\ Range(filtered_files) =
                      {WoaPath(download_dir, "t", s, an) :
                          s \in (IF time_code = "00" THEN {0} ELSE 13..16)}
        /\ pc = "done" => (result # None /\ Len(result[1].shape) = 4)

\* C5 witness: the seasonal load of the complete archive list returned.
C5_Witness ==
    /\ csv_files = ArchiveList(FieldCodes)
    /\ field_code = an
    /\ time_code = "13-16"
    /\ pc = "done"
    /\ result # None

\* C6: the returned grid has the shape (len(coords['lat']),
\* len(coords['lon']), len(coords['depth']), len(coords['time'])).
C6_GridShape ==
    pc = "done" =>
        LET shape == <<Len(result[2].lat), Len(result[2].lon),
                       Len(result[2].depth), Len(result[2].time)>>
        IN  /\ result[1].shape = shape
            /\ DOMAIN result[1].cells =
                   (0..(shape[1] - 1)) \X (0..(shape[2] - 1))
                       \X (0..(shape[3] - 1)) \X (0..(shape[4] - 1))

\* C6 witness: a grid with two latitudes, one longitude and two depths.
C6_Witness ==
    /\ pc = "done"
    /\ result[1].shape = <<2, 1, 2, 1>>

\* C7: coords['time'] is [0] for the annual code, 1..12 for the monthly and
\* 1..4 for the seasonal; its length is the size of the grid's fourth
\* dimension and is fixed by the time code alone.
C7_TimeAxis ==
    pc = "done" =>
        /\ result[2].time =
               (IF time_code = "00" THEN <<0>>
                ELSE IF time_code = "01-12"
                THEN <<1, 2, 3, 4, 5, 6, 7, 8, 9, 10, 11, 12>>
                ELSE <<1, 2, 3, 4>>)
        /\ Len(result[2].time) = result[1].shape[4]

\* C7 witness: a seasonal load returned.
C7_Witness ==
    /\ pc = "done"
    /\ time_code = "13-16"
    /\ result[1].shape[4] = 4

WritesOwnTimeIndex ==
    (data # None /\ data' # None) =>
        \A c \in DOMAIN data.cells :
            data'.cells[c] # data.cells[c] =>
                /\ pc = "pass2_read"
                /\ c[4] = fidx
                /\ open_files = {filtered_files[fidx + 1]}
                /\ CellFrom(data'.cells[c], disk[filtered_files[fidx + 1]],
                            lats[c[1] + 1], lons[c[2] + 1], c[3])

\* Twelve monthly files of one directory, named with the slots 01..12:
\* time index m-1 holds the data of the file of month m.
MonthOrder ==
    (/\ pc = "done"
     /\ time_code = "01-12"
     /\ Len(csv_files) = 12
     /\ Range(csv_files) =
            {WoaPath(download_dir, "t", m, field_code) : m \in 1..12}) =>
        \A c \in DOMAIN result[1].cells :
            CellFrom(result[1].cells[c],
                     disk[WoaPath(download_dir, "t", c[4] + 1, field_code)],
                     result[2].lat[c[1] + 1], result[2].lon[c[2] + 1], c[3])

\* C10: during population the file at position t of the sorted list writes
\* only cells of time index t, and those cells are written from that file
\* only; for twelve monthly files named with slots 01..12 in one directory,
\* time index m-1 holds the data of month m.
C10_TimeIndexIsFilePosition ==
    [][WritesOwnTimeIndex]_vars /\ []MonthOrder

\* C10 witness: a monthly load from a list given in descending order put
\* December's value 12.0 at time index 11 and January's 1.0 at time index 0.
C10_Witness ==
    /\ pc = "done"
    /\ time_code = "01-12"
    /\ csv_files = SlotList(1, 12, FALSE)
    /\ result[1].cells[<<0, 0, 0, 11>>] = <<120>>
    /\ result[1].cells[<<0, 0, 0, 0>>] = <<10>>

\* C11 (as claimed): a malformed depth header is the same error for the
\* caller whether the label 'DEPTHS (M):' is missing from the second line
\* of the first file or a token after the label is not numeric: the
\* ValueError that the other input errors of the call raise.
C11_HeaderErrorsAlike ==
    (pc = "raised" /\ err.kind = "MalformedHeader") => err.exc = "ValueError"

\* C12: a second call with the same file list, field code and time code on
\* unmodified files ends as the first did: the same grid and coordinate
\* vectors, or the same error.
C12_SecondCallSameOutcome ==
    (calls >= 2 /\ pc \in {"done", "raised"}) => Outcome = first

\* C12 witness: a second call returned the grid its first call returned.
C12_Witness ==
    /\ calls = 2
    /\ pc = "done"
    /\ first.result # None
    /\ result = first.result
    /\ result[1].shape = <<2, 2, 2, 4>>

\* C13: no step of a call, in a call that returns or in one that raises,
\* changes the content of a file, the caller's csv_files list (elements and
\* order) or the state kept outside the call (the download directory and
\* the downloads table).
C13_InputsUntouched ==
    [][disk' = disk /\ csv_files' = csv_files /\ g_fs' = g_fs /\ g_db' = g_db]_vars

\* C13 witness: a call returned a grid from a selection it had to reorder,
\* and the caller's list is still in the caller's order.
C13_Witness ==
    /\ pc = "done"
    /\ result # None
    /\ csv_files = SlotList(13, 16, FALSE)
    /\ filtered_files = SlotList(13, 16, TRUE)
    /\ filtered_files # csv_files

\* The open of a file happens with no file open.
OpensWithNoneOpen ==
    (open_files' # open_files /\ open_files' # {}) => open_files = {}

\* At most one file is open, and none when the call has returned or raised.
AtMostOneOpen ==
    /\ Cardinality(open_files) <= 1
    /\ pc \in {"done", "raised"} => open_files = {}

\* C14: at every point of a call at most one file is open, a file is closed
\* before the next is opened, and no file is open when the call has returned
\* or raised, a malformed depth header included.
C14_OneFileOpen == []AtMostOneOpen /\ [][OpensWithNoneOpen]_vars

\* C14 witness: the depth header of the open file was malformed, the call
\* raised and the file is closed.
C14_Witness ==
    /\ pc = "raised"
    /\ err.kind = "MalformedHeader"
    /\ opened = <<filtered_files[1]>>
    /\ open_files = {}

\* C15: two calls on disjoint files whose steps interleave in any order each
\* end as the call ends when it runs alone on the same files: the same grid
\* and coordinates, or the same error.
C15_InterleavedAsAlone ==
    /\ pc \in {"done", "raised"} =>
        Outcome = ReadAlone(csv_files, field_code, time_code, disk)
    /\ (other # None /\ other.pc \in {"done", "raised"}) =>
        [err |-> other.err, result |-> other.result]
            = ReadAlone(other.csv_files, other.field_code, other.time_code, disk)

\* C15 witness: both calls have returned, each its own grid on its own
\* latitude axis.
C15_Witness ==
    /\ running = 2
    /\ pc = "done"
    /\ result # None
    /\ other.pc = "done"
    /\ other.result # None
    /\ other.result[2].lat # result[2].lat

\* The CSV paths of an archive: its .csv members, then its .csv.gz members
\* without the .gz, each under the download directory.
CsvPathsOf(members) ==
    LET paths == [i \in 1..Len(members) |-> join(download_dir, members[i].name)]
        IsCsv(f) == endswith(f, csv)
        IsGz(f) == endswith(f, csv_gz)
        gz == SelectSeq(paths, IsGz)
    IN  SelectSeq(paths, IsCsv) \o [i \in 1..Len(gz) |-> SubSeq(gz[i], 1, Len(gz[i]) - 3)]

DownloadRecorded ==
    (g_pc \in {"extract", "gunzip", "return", "returned"} /\ g_local.downloaded) =>
        /\ g_local.file_name \in DOMAIN g_db.rows
        /\ g_db.rows[g_local.file_name].variable = g_args.v

\* A get_citation call that follows a whole download of its variable gives
\* the date of the latest such download as access date.
CitesDownloadDate ==
    (g_cite' # g_cite /\ g_cite'.err = "") =>
        LET days == {g_http[i].day :
                        i \in {j \in 1..Len(g_http) :
                                  /\ g_http[j].complete
                                  /\ g_http[j].variable = g_cite'.variable}}
        IN  days # {} => g_cite'.access_date = <<SetMax(days)>>

\* C17 (as claimed): a download get_woa completed for variable v is recorded
\* in the downloads table, and get_citation(v) on a later date gives the
\* date of the download as access date, not the date of its own call.
C17_DownloadRecordedAndCited ==
    []DownloadRecorded /\ [][CitesDownloadDate]_<<vars, outside>>

\* C18 (as claimed): for every file set that passes validation the sorted
\* selection is in ascending slot code order, paths of different directories
\* or of otherwise different names included, so that time index t of the
\* grid holds the data of the file with the (t+1)-th smallest slot code.
C18_TimeIndexInSlotOrder ==
    (pc = "done" /\ time_code \in {"01-12", "13-16"}
        /\ \A i \in 1..Len(filtered_files) :
              \E s \in 0..16, dir \in {download_dir, other_dir}, v \in {"t", "s"} :
                  filtered_files[i] = WoaPath(dir, v, s, field_code)) =>
        /\ \A i, j \in 1..Len(filtered_files) :
              i < j => SlotCode(filtered_files[i], field_code)
                          < SlotCode(filtered_files[j], field_code)
        /\ \A t \in 0..(n_time - 1) :
              \E f \in Range(filtered_files) :
                  /\ Cardinality({g \in Range(filtered_files) :
                        SlotCode(g, field_code) < SlotCode(f, field_code)}) = t
                  /\ \A c \in DOMAIN result[1].cells :
                        c[4] = t =>
                            CellFrom(result[1].cells[c], disk[f],
                                     result[2].lat[c[1] + 1],
                                     result[2].lon[c[2] + 1], c[3])

\* C19: for a selection of the expected size, the call fails on a depth
\* header only when the header of the first file in sorted order is
\* malformed, whatever the headers of the other files are; else it returns,
\* coords['depth'] is the depth list of that first file, and the cell of
\* depth index k < nDepth holds a value of field position k of the lines of
\* its file, the fields at positions k >= nDepth being dropped.
C19_DepthFromFirstFile ==
    (pc \in {"done", "raised"} /\ "filtered_files" \in bound
        /\ FilterError(filtered_files, expected_files) = NoError) =>
        LET head == disk[filtered_files[1]]
        IN  IF DepthError(head) # NoError
            THEN pc = "raised" /\ err = DepthError(head)
            ELSE /\ pc = "done"
                 /\ result[2].depth = ParseDepths(head)
                 /\ result[1].shape[3] = Len(ParseDepths(head))
                 /\ \A c \in DOMAIN result[1].cells :
                       /\ c[3] < Len(ParseDepths(head))
                       /\ CellFrom(result[1].cells[c],
                                   disk[filtered_files[c[4] + 1]],
                                   result[2].lat[c[1] + 1],
                                   result[2].lon[c[2] + 1], c[3])

\* C19 witness: a seasonal load returned the two depths of its first file;
\* its second file has a header without the label and a line of three
\* values, of which the first two are in the grid at depth indices 0 and 1.
C19_Witness ==
    /\ pc = "done"
    /\ time_code = "13-16"
    /\ disk[filtered_files[2]] = File(DepthsNoLabel, <<LineLong>>)
    /\ result[2].depth = <<0, 100>>
    /\ \E c \in DOMAIN result[1].cells :
          /\ c[3] = 0 /\ c[4] = 1
          /\ result[1].cells[c] = <<10>>
          /\ result[1].cells[<<c[1], c[2], 1, 1>>] = <<20>>

\* What pass 1 does with one file: the latitudes and the longitudes of the
\* data lines that have two numeric first fields join the sets, the other
\* lines add nothing and raise nothing.
Pass1SkipsBadLines ==
    (pc = "pass1_read" /\ pc' # pc) =>
        LET good == {l \in Range(DataLines(disk[filtered_files[fidx + 1]])) :
                        HasLatLon(l)}
        IN  /\ all_lats' = all_lats \cup {float(Fields(l)[1]) : l \in good}
            /\ all_lons' = all_lons \cup {float(Fields(l)[2]) : l \in good}
            /\ pc' = "pass1"
            /\ err' = NoError

\* C20: in pass 1 a data line with fewer than two fields, or whose first two
\* fields are not both numbers, is skipped without error and adds nothing
\* to either axis (no latitude when only the longitude fails); the lines
\* after it in the file are still processed.
C20_Pass1SkipsBadLines == [][Pass1SkipsBadLines]_vars

\* C20 witness: pass 1 has read a file whose first data line has a
\* longitude that is no number and whose second line is good: the axes hold
\* the coordinates of the second line only.
C20_Witness ==
    /\ pc = "pass1"
    /\ fidx = 1
    /\ DataLines(disk[filtered_files[1]]) = <<LineBadLon, LineShort>>
    /\ all_lats = {-50}
    /\ all_lons = {200}

\* A value field of a line is good when it is non-blank and numeric.
GoodField(line, k) ==
    /\ Len(Fields(line)) >= k + 3
    /\ strip(Fields(line)[k + 3]) # <<>>
    /\ float_ok(Fields(line)[k + 3])

\* What pass 2 does with one file: it raises nothing; every good value
\* field of a parsed line, at a depth of the axis, has its cell written,
\* whatever the fields before it in the line and the lines before it in the
\* file are; a cell that no good field is for stays as it was.
Pass2SkipsBadFields ==
    (pc = "pass2_read" /\ pc' # pc) =>
        LET parsed == {l \in Range(DataLines(disk[filtered_files[fidx + 1]])) :
                          HasLatLon(l) /\ Len(Fields(l)) >= 3}
        IN  /\ pc' = "pass2"
            /\ err' = NoError
            /\ \A l \in parsed, k \in 0..(Len(depths) - 1) :
                  GoodField(l, k) =>
                      data'.cells[<<lat_idx[float(Fields(l)[1])],
                                    lon_idx[float(Fields(l)[2])], k, fidx>>] # NaN
            /\ \A c \in DOMAIN data.cells :
                  (~\E l \in parsed :
                        /\ lat_idx[float(Fields(l)[1])] = c[1]
                        /\ lon_idx[float(Fields(l)[2])] = c[2]
                        /\ c[4] = fidx
                        /\ GoodField(l, c[3])) =>
                      data'.cells[c] = data.cells[c]

\* C21: in pass 2 a value field that is blank or is no number leaves its
\* cell at the missing sentinel and raises nothing, and the later value
\* fields of its line and the later lines of the file are still written.
C21_Pass2SkipsBadFields == [][Pass2SkipsBadFields]_vars

\* C21 witness: a line whose first value is no number and a line whose
\* first value is blank each left depth 0 missing and wrote depth 1.
C21_Witness ==
    /\ pc = "done"
    /\ DataLines(disk[filtered_files[1]]) = <<LineBadValue, LineBlankHead>>
    /\ result[2].lon = <<200, 300>>
    /\ result[1].cells[<<0, 1, 0, 0>>] = NaN
    /\ result[1].cells[<<0, 1, 1, 0>>] = <<25>>
    /\ result[1].cells[<<0, 0, 0, 0>>] = NaN
    /\ result[1].cells[<<0, 0, 1, 0>>] = <<70>>

\* C22: when get_woa returns, every returned path ends in '.csv' and names a
\* file that holds what a member of the archive extracted in this call
\* holds (a '.csv' member, or a '.csv.gz' member decompressed); every
\* '.csv.gz' member is decompressed and its '.gz' file is gone; no other
\* file of the download directory is returned.
C22_ReturnedCsvPaths ==
    g_pc = "returned" =>
        LET members == g_fs[g_local.local_path].body
            M == 1..Len(members)
        IN  /\ \A i \in 1..Len(g_ret.value) :
                  LET p == g_ret.value[i]
                  IN  /\ endswith(p, csv)
                      /\ p \in DOMAIN g_fs
                      /\ \E m \in M :
                            \/ /\ p = join(download_dir, members[m].name)
                               /\ g_fs[p] = members[m].content
                            \/ /\ p \o <<".","g","z">> = join(download_dir, members[m].name)
                               /\ g_fs[p] = Plain(members[m].content.body)
            /\ \A m \in M :
                  endswith(members[m].name, csv_gz) =>
                      LET gz == join(download_dir, members[m].name)
                      IN  /\ gz \notin DOMAIN g_fs
                          /\ SubSeq(gz, 1, Len(gz) - 3) \in Range(g_ret.value)
                          /\ g_fs[SubSeq(gz, 1, Len(gz) - 3)]
                                = Plain(members[m].content.body)

\* C22 witness: a call for salinity in a directory that holds the CSV files
\* of temperature returned the three CSV paths of the salinity archive, and
\* no path of temperature.
C22_Witness ==
    /\ g_pc = "returned"
    /\ g_args.v = "s"
    /\ g_local.downloaded
    /\ join(download_dir, WoaName("t", 13, an)) \in DOMAIN g_fs
    /\ Range(g_ret.value) =
          {join(download_dir, WoaName("s", s, an)) : s \in {0, 1, 13}}

\* C23: a path get_etopo returns names a file that nc.Dataset opened during
\* this call; a file that was there and failed the check is not returned as
\* it is but downloaded again; a downloaded file that fails the check makes
\* the call raise RuntimeError.
C23_ReturnedFileChecked ==
    /\ e_pc = "returned" =>
          /\ e_ret.value = e_local.local_path
          /\ e_ret.value \in e_local.checked
          /\ e_fs[e_ret.value] = "netcdf"
    /\ (e_pc = "returned" /\ e_local.found_corrupt) =>
          e_local.requests = 1 /\ e_local.downloaded
    /\ (e_pc \in {"returned", "raised"} /\ e_local.downloaded
            /\ e_fs[e_local.local_path] # "netcdf") =>
          e_pc = "raised" /\ e_ret.err = "RuntimeError"

\* C23 witness: the file was there and not readable, the call downloaded it
\* again and returned the path of the readable file.
C23_Witness ==
    /\ e_pc = "returned"
    /\ e_local.found_corrupt
    /\ e_local.downloaded
    /\ e_fs[e_ret.value] = "netcdf"

\* The data lines pass 2 parses: at least three fields, of which the first
\* two are floats.
Pass2Parsed(file) ==
    {l \in Range(DataLines(file)) : Len(Fields(l)) >= 3 /\ HasLatLon(l)}

\* C24 (as claimed): with the files unchanged between the passes, every data
\* line pass 2 parses finds its latitude and its longitude in the lookup
\* tables of pass 1, so the KeyError skip is never taken.
C24_KeysFound ==
    pc = "pass2_read" =>
        \A l \in Pass2Parsed(disk[filtered_files[fidx + 1]]) :
            /\ float(Fields(l)[1]) \in DOMAIN lat_idx
            /\ float(Fields(l)[2]) \in DOMAIN lon_idx

\* C24 (amended): every data line pass 2 parses finds its latitude in the
\* table unless the latitude is a nan, and its longitude unless the
\* longitude is a nan.
C24_NumberKeysFound ==
    pc = "pass2_read" =>
        \A l \in Pass2Parsed(disk[filtered_files[fidx + 1]]) :
            /\ float(Fields(l)[1]) # nan_object(0) =>
                  float(Fields(l)[1]) \in DOMAIN lat_idx
            /\ float(Fields(l)[2]) # nan_object(0) =>
                  float(Fields(l)[2]) \in DOMAIN lon_idx

\* C24 witness: pass 2 is reading a file of two lines with numbers for
\* latitude and longitude, and both latitudes and the longitude are keys.
C24_Witness ==
    /\ pc = "pass2_read"
    /\ DataLines(disk[filtered_files[1]]) = <<LineShort, LineLong>>
    /\ DOMAIN lat_idx = {-50, 100}
    /\ DOMAIN lon_idx = {200}

\* C25: whenever a call reaches the second file count check, the number of
\* selected files is 1, 4 or 12 and is the count expected for the time
\* code; the check never fails, and the time dimension has that size.
C25_SecondCountCheckDead ==
    /\ pc = "time_axis" =>
          /\ Len(filtered_files) \in {1, 4, 12}
          /\ Len(filtered_files) = ExpectedFiles(time_code)
    /\ err.kind # "UnexpectedCount"
    /\ "n_time" \in bound =>
          n_time = ExpectedFiles(time_code) /\ Len(time_values) = n_time

\* C25 witness: a monthly load is at the second check with twelve files.
C25_Witness ==
    /\ pc = "time_axis"
    /\ time_code = "01-12"
    /\ Len(filtered_files) = 12
    /\ expected_files = 12

\* The orders of the list l that are compared: every order of a list of at
\* most four paths; of a longer list the reversed list, the list rotated by
\* one, the list with its first two paths exchanged and the list with its
\* halves exchanged.
Distinct(l) == \A i, j \in 1..Len(l) : l[i] = l[j] => i = j
Reorder(l, q) == [i \in 1..Len(l) |-> l[q[i]]]
Orders(l) ==
    LET n == Len(l)
    IN  IF n <= 4
        THEN {Reorder(l, q) : q \in {f \in [1..n -> 1..n] : Distinct(f)}}
        ELSE {[i \in 1..n |-> l[n + 1 - i]],
              [i \in 1..n |-> l[(i % n) + 1]],
              [i \in 1..n |-> l[IF i = 1 THEN 2 ELSE IF i = 2 THEN 1 ELSE i]],
              [i \in 1..n |-> l[((i + (n \div 2) - 1) % n) + 1]]}

\* C26: a call on a list of distinct paths ends as the call on any other
\* order of the list ends: the same error, or the same grid and coordinates.
C26_OrderOfPathsIrrelevant ==
    (pc \in {"done", "raised"} /\ Distinct(csv_files)) =>
        \A l \in Orders(csv_files) :
            ReadAlone(l, field_code, time_code, disk) = Outcome

\* C26 witness: the four seasonal files were given in descending order,
\* their contents differ, and the call returned.
C26_Witness ==
    /\ pc = "done"
    /\ csv_files = SlotList(13, 16, FALSE)
    /\ disk[csv_files[1]] # disk[csv_files[4]]
    /\ result # None

\* The slots a time code stands for, and the slots of the selected files.
SlotsOf(tc) == IF tc = "01-12" THEN 1..12 ELSE 13..16
SelectedSlots == [i \in 1..Len(filtered_files) |-> SlotCode(filtered_files[i], field_code)]
PassedValidation ==
    /\ pc \notin {"validate", "filter"}
    /\ err.kind \notin {"InvalidSelector", "NoMatchingFiles", "FileCountMismatch"}

\* C27: a monthly or seasonal load that is past the checks of the selected
\* files has selected one file for each slot of its time code, and no two
\* files of one slot.
C27_OneFilePerSlot ==
    (PassedValidation /\ time_code \in {"01-12", "13-16"}) =>
        /\ Distinct(SelectedSlots)
        /\ Range(SelectedSlots) = SlotsOf(time_code)

\* The field token of the name of a CSV path.
FieldToken(path) ==
    CHOOSE f \in Range(FieldCodes) :
        \E dir \in {download_dir, other_dir}, v \in {"t", "s"}, s \in 0..16 :
            path = WoaPath(dir, v, s, f)

\* C28: every selected file has the field code of the call as its field
\* token, and an annual load of 'sd' or 'se' from the list of a complete
\* archive has selected one file and does not fail.
C28_ExactFieldSelected ==
    /\ \A i \in 1..Len(filtered_files) :
          FieldToken(filtered_files[i]) = field_code
    /\ (/\ csv_files = ArchiveList(FieldCodes)
        /\ time_code = "00"
        /\ field_code \in {sd, se}
        /\ pc \notin {"validate", "filter"})
       => (Len(filtered_files) = 1 /\ err = NoError)

\* The positions of the data lines of a file that give a value for
\* (lat, lon) at depth index k.
LinesAt(file, lat, lon, k) ==
    {n \in 1..Len(DataLines(file)) :
        LET l == DataLines(file)[n]
        IN  /\ HasLatLon(l)
            /\ float(Fields(l)[1]) = lat
            /\ float(Fields(l)[2]) = lon
            /\ GoodField(l, k)}

\* C29: a cell of the returned grid holds the value of the last data line
\* of its file that has its latitude and longitude and a non-blank numeric
\* field at its depth, whatever the lines after that one hold at that depth;
\* it is missing when the file has no such line.
C29_LastGoodLineWins ==
    pc = "done" =>
        \A c \in DOMAIN result[1].cells :
            LET file == disk[filtered_files[c[4] + 1]]
                at == LinesAt(file, result[2].lat[c[1] + 1],
                              result[2].lon[c[2] + 1], c[3])
            IN  IF at = {} THEN result[1].cells[c] = NaN
                ELSE result[1].cells[c] =
                        <<float(Fields(DataLines(file)[SetMax(at)])[c[3] + 3])>>

\* C29 witness: two lines for (10.0, 20.0): the second overwrote 1.0 by 5.5
\* at depth 0, and its blank field left the 2.0 of the first at depth 1.
C29_Witness ==
    /\ pc = "done"
    /\ DataLines(disk[filtered_files[1]]) = <<LineLong, LineBlankTail>>
    /\ result[1].cells[<<0, 0, 0, 0>>] = <<55>>
    /\ result[1].cells[<<0, 0, 1, 0>>] = <<20>>

\* The local path of the archive a request asked for, and whether one of
\* the downloads of that archive ran to its end.
ArchivePath(request) == join(download_dir, request.url[5])
CompletedDownload(path) ==
    \E i \in 1..Len(g_http) : ArchivePath(g_http[i]) = path /\ g_http[i].complete

\* C30: an archive that these calls asked the server for (so it was not
\* there before) is at its local path only if one of its downloads ran to
\* its end, and then it is the whole archive; a call that skips the
\* download of such an archive extracts a whole archive.
C30_ArchiveOnlyIfComplete ==
    /\ \A i \in 1..Len(g_http) :
          ArchivePath(g_http[i]) \in DOMAIN g_fs =>
              /\ CompletedDownload(ArchivePath(g_http[i]))
              /\ g_fs[ArchivePath(g_http[i])].kind = "tar"
    /\ (/\ g_pc = "extract"
        /\ g_local.existed
        /\ \E i \in 1..Len(g_http) : ArchivePath(g_http[i]) = g_local.local_path)
       => g_fs[g_local.local_path].kind = "tar"
====
